---- MODULE Spec2Model ----
(***************************************************************************)
(* Verification model of jzx17/gofetch: the client's middleware registry   *)
(* and chain composition, the retry middleware, the token-bucket rate      *)
(* limiter, response streaming and helpers, the async layer, the size      *)
(* validation middleware and its counting reader, Client.Do, the request   *)
(* builder, the exponential backoff and the logging middleware.  Each      *)
(* component has its own specification over the shared variables; a        *)
(* component that a specification does not exercise stays in its           *)
(* constructed state.                                                      *)
(***************************************************************************)
EXTENDS Integers, Sequences, FiniteSets, TLC

\* ------------------------------------------------------------------------
\* Bounds of the model
\* ------------------------------------------------------------------------
NumWriters == 2      \* goroutines that mutate the registry
NumCallers == 1      \* goroutines that perform a round trip
MaxOps == 1          \* registry operations performed while calls run

Writers == 1..NumWriters
Callers == (NumWriters + 1)..(NumWriters + NumCallers)
Names == {"A", "B"}

VARIABLES
    middlewares,     \* Client.middlewares
    muWriter,        \* Client.mu: goroutine holding the write lock, 0 if none
    muReaders,       \* Client.mu: goroutines holding a read lock
    w,               \* per writer goroutine: position, operation, locals
    call,            \* per caller goroutine: position, snapshot, chain, trace
    used,            \* history: middlewares whose Use has stored its append
    reg0,            \* history: the registry as NewClient left it
    nops             \* history: number of registry operations started

clientVars == <<middlewares, muWriter, muReaders, w, call, used, reg0, nops>>

VARIABLES
    rin,             \* retry: the strategy, the request and its body as given
    r,               \* retry: locals of retryMiddleware.roundTrip
    ctx,             \* retry: req.Context().Err(): "none", "canceled", "deadline"
    inner,           \* retry: history of the invocations of next(req)
    resps,           \* retry: the response objects inner has produced
    ret              \* retry: what roundTrip returned to its caller

retryVars == <<rin, r, ctx, inner, resps, ret>>

VARIABLES
    opts,            \* rate limit: rateLimitMiddleware.options
    tokens,          \* rate limit: m.tokens, in 1/TicksPerSecond of a token
    lastTimestamp,   \* rate limit: m.lastTimestamp, in ticks
    rlMu,            \* rate limit: m.mu, the goroutine holding it or 0
    now,             \* rate limit: time.Now(), in ticks
    rl,              \* rate limit: per calling goroutine, position and locals
    rlLog            \* rate limit: history of the calls' outcomes

rlVars == <<opts, tokens, lastTimestamp, rlMu, now, rl, rlLog>>

VARIABLES
    sc,              \* Response.StreamChunksWithContext: its locals and history
    ag,              \* async layer: the tasks, the aggregator and its channels
    sv,              \* size validation middleware: one round trip
    rb,              \* Response: the body and one helper call on it
    cd,              \* Client.Do / DoStream / Execute: one call
    rq,              \* core.Request: the requests, their maps and body readers
    lg               \* logging middleware: one round trip and the caller's reads

vars == <<clientVars, retryVars, rlVars, sc, ag, sv, rb, cd, rq, lg>>

\* ------------------------------------------------------------------------
\* Middleware values and the chain (middlewares/base.go)
\* ------------------------------------------------------------------------
\* A middleware created by CreateMiddleware: its identifier name, and a
\* version that tells apart two middlewares registered under one name.
Mw(name, ver) == [name |-> name, ver |-> ver]
NilMw == Mw("nil", 0)
AllMws == {Mw(n, v) : n \in Names, v \in 0..NumWriters}

\* A composed RoundTripFunc is the sequence of the middlewares wrapped
\* around the terminal transport, outermost first; the bare transport is <<>>.
final == << >>
Wrap(mw, next) == <<mw>> \o next

RECURSIVE ChainLoopUp(_, _, _)
ChainLoopUp(wrapped, mws, i) ==
    IF i > Len(mws) THEN wrapped
    ELSE ChainLoopUp(Wrap(mws[i], wrapped), mws, i + 1)
ChainMiddlewaresAscending(fin, mws) == ChainLoopUp(fin, mws, 1)

RECURSIVE ChainLoop(_, _, _)
ChainLoop(wrapped, mws, i) ==
    IF i < 1 THEN wrapped
    ELSE ChainLoop(Wrap(mws[i], wrapped), mws, i - 1)
ChainMiddlewares(fin, mws) == ChainLoop(fin, mws, Len(mws))

\* ------------------------------------------------------------------------
\* Client.mu (sync.RWMutex)
\* ------------------------------------------------------------------------
CanLockNoExclusion == TRUE
CanLock == muWriter = 0 /\ muReaders = {}
CanRLockNoExclusion == TRUE
CanRLock == muWriter = 0

\* ------------------------------------------------------------------------
\* Registry operations (Use, UpdateMiddleware, RemoveMiddleware)
\* ------------------------------------------------------------------------
FirstIndex(reg, name) ==
    IF \E i \in 1..Len(reg) : reg[i].name = name
    THEN CHOOSE i \in 1..Len(reg) :
            /\ reg[i].name = name
            /\ \A j \in 1..(i - 1) : reg[j].name # name
    ELSE 0

UseResult(reg, mw) == Append(reg, mw)
UpdateResultAppend(reg, mw) == Append(reg, mw)
UpdateResult(reg, mw) ==
    IF FirstIndex(reg, mw.name) # 0
    THEN [reg EXCEPT ![FirstIndex(reg, mw.name)] = mw]
    ELSE Append(reg, mw)
RemoveResult(reg, name) == SelectSeq(reg, LAMBDA m : m.name # name)

OpResult(op, reg) ==
    CASE op.kind = "use" -> UseResult(reg, op.mw)
      [] op.kind = "update" -> UpdateResult(reg, op.mw)
      [] OTHER -> RemoveResult(reg, op.mw.name)

IdleWriter == [pc |-> "idle", op |-> [kind |-> "none", mw |-> NilMw],
               local |-> << >>]

\* c.mu.Lock() at the head of a registry operation
MuLock(t, op) ==
    /\ w[t].pc = "idle"
    /\ CanLock
    /\ muWriter' = t
    /\ nops' = nops + 1
    /\ w' = [w EXCEPT ![t].pc = "read", ![t].op = op]
    /\ UNCHANGED <<middlewares, muReaders, call, used, reg0, retryVars, rlVars, sc, ag, sv, rb, cd, rq, lg>>

Use(t) ==
    /\ nops < MaxOps
    /\ \E name \in Names : MuLock(t, [kind |-> "use", mw |-> Mw(name, t)])

UpdateMiddleware(t) ==
    /\ nops < MaxOps
    /\ \E name \in Names : MuLock(t, [kind |-> "update", mw |-> Mw(name, t)])

RemoveMiddleware(t) ==
    /\ nops < MaxOps
    /\ \E name \in Names : MuLock(t, [kind |-> "remove", mw |-> Mw(name, t)])

\* every writer goroutine calls Use once, all of them concurrently
ConcurrentUse(t) ==
    /\ \A i \in 1..Len(used) : used[i].ver # t
    /\ \E name \in Names : MuLock(t, [kind |-> "use", mw |-> Mw(name, t)])

\* the operation reads c.middlewares ...
RegistryRead(t) ==
    /\ w[t].pc = "read"
    /\ w' = [w EXCEPT ![t].pc = "write", ![t].local = middlewares]
    /\ UNCHANGED <<middlewares, muWriter, muReaders, call, used, reg0, nops, retryVars, rlVars, sc, ag, sv, rb, cd, rq, lg>>

\* ... and stores the new slice
RegistryWrite(t) ==
    /\ w[t].pc = "write"
    /\ middlewares' = OpResult(w[t].op, w[t].local)
    /\ used' = IF w[t].op.kind = "use" THEN Append(used, w[t].op.mw) ELSE used
    /\ w' = [w EXCEPT ![t].pc = "setT"]
    /\ UNCHANGED <<muWriter, muReaders, call, reg0, nops, retryVars, rlVars, sc, ag, sv, rb, cd, rq, lg>>

\* c.client.Transport = c.wrapTransport(c.getBaseRoundTripper())
SetClientTransport(t) ==
    /\ w[t].pc = "setT"
    /\ w' = [w EXCEPT ![t].pc = "unlock"]
    /\ UNCHANGED <<middlewares, muWriter, muReaders, call, used, reg0, nops, retryVars, rlVars, sc, ag, sv, rb, cd, rq, lg>>

\* deferred c.mu.Unlock()
MuUnlock(t) ==
    /\ w[t].pc = "unlock"
    /\ muWriter' = IF muWriter = t THEN 0 ELSE muWriter
    /\ w' = [w EXCEPT ![t] = IdleWriter]
    /\ UNCHANGED <<middlewares, muReaders, call, used, reg0, nops, retryVars, rlVars, sc, ag, sv, rb, cd, rq, lg>>

\* ------------------------------------------------------------------------
\* A round trip through the client (Client.Do -> wrapTransport -> chain)
\* ------------------------------------------------------------------------
NamesOf(mws) == [i \in 1..Len(mws) |-> mws[i].name]
Event(ev, mw, hdr) == [ev |-> ev, mw |-> mw, hdr |-> hdr]

IdleCall == [pc |-> "idle", snap |-> << >>, chain |-> << >>, depth |-> 0,
             hdr |-> << >>, trace |-> << >>, regAt |-> << >>]

\* copy(dst, src) copies min(len(dst), len(src)) elements
CopySlice(dst, src) ==
    [i \in 1..Len(dst) |-> IF i <= Len(src) THEN src[i] ELSE dst[i]]

\* c.client.Do(httpReq) reads c.client.Transport, outside c.mu
ClientDo(c) ==
    /\ call[c].pc = "idle"
    /\ call' = [call EXCEPT ![c].pc = "rlock"]
    /\ UNCHANGED <<middlewares, muWriter, muReaders, w, used, reg0, nops, retryVars, rlVars, sc, ag, sv, rb, cd, rq, lg>>

wrapTransportRLock(c) ==
    /\ call[c].pc = "rlock"
    /\ CanRLock
    /\ muReaders' = muReaders \cup {c}
    /\ call' = [call EXCEPT ![c].pc = "make", ![c].regAt = middlewares]
    /\ UNCHANGED <<middlewares, muWriter, w, used, reg0, nops, retryVars, rlVars, sc, ag, sv, rb, cd, rq, lg>>

\* mws := make([]ConfigurableMiddleware, len(c.middlewares))
wrapTransportMake(c) ==
    /\ call[c].pc = "make"
    /\ call' = [call EXCEPT ![c].pc = "copy",
                            ![c].snap = [i \in 1..Len(middlewares) |-> NilMw]]
    /\ UNCHANGED <<middlewares, muWriter, muReaders, w, used, reg0, nops, retryVars, rlVars, sc, ag, sv, rb, cd, rq, lg>>

\* copy(mws, c.middlewares)
wrapTransportCopy(c) ==
    /\ call[c].pc = "copy"
    /\ call' = [call EXCEPT ![c].pc = "runlock",
                            ![c].snap = CopySlice(call[c].snap, middlewares)]
    /\ UNCHANGED <<middlewares, muWriter, muReaders, w, used, reg0, nops, retryVars, rlVars, sc, ag, sv, rb, cd, rq, lg>>

wrapTransportRUnlock(c) ==
    /\ call[c].pc = "runlock"
    /\ muReaders' = muReaders \ {c}
    /\ call' = [call EXCEPT ![c].pc = "compose"]
    /\ UNCHANGED <<middlewares, muWriter, w, used, reg0, nops, retryVars, rlVars, sc, ag, sv, rb, cd, rq, lg>>

\* chain := ChainMiddlewares(final, mws...); a nil entry panics in Wrap
wrapTransportChain(c) ==
    /\ call[c].pc = "compose"
    /\ call' = [call EXCEPT
            ![c].pc = IF \E i \in 1..Len(call[c].snap) : call[c].snap[i] = NilMw
                      THEN "panic" ELSE "down",
            ![c].chain = ChainMiddlewares(final, call[c].snap)]
    /\ UNCHANGED <<middlewares, muWriter, muReaders, w, used, reg0, nops, retryVars, rlVars, sc, ag, sv, rb, cd, rq, lg>>

\* the next middleware of the chain runs its request-side code and calls next
MiddlewarePre(c) ==
    /\ call[c].pc = "down"
    /\ call[c].depth < Len(call[c].chain)
    /\ LET m == call[c].chain[call[c].depth + 1] IN
        call' = [call EXCEPT
            ![c].trace = Append(@, Event("pre", m, call[c].hdr)),
            ![c].hdr = Append(@, m.name),
            ![c].depth = @ + 1]
    /\ UNCHANGED <<middlewares, muWriter, muReaders, w, used, reg0, nops, retryVars, rlVars, sc, ag, sv, rb, cd, rq, lg>>

\* final: base.RoundTrip(req)
TransportRoundTrip(c) ==
    /\ call[c].pc = "down"
    /\ call[c].depth = Len(call[c].chain)
    /\ call' = [call EXCEPT
            ![c].trace = Append(@, Event("transport", NilMw, call[c].hdr)),
            ![c].pc = "up"]
    /\ UNCHANGED <<middlewares, muWriter, muReaders, w, used, reg0, nops, retryVars, rlVars, sc, ag, sv, rb, cd, rq, lg>>

\* next(req) has returned into the innermost middleware still on the stack
MiddlewarePost(c) ==
    /\ call[c].pc = "up"
    /\ call[c].depth > 0
    /\ call' = [call EXCEPT
            ![c].trace = Append(@, Event("post", call[c].chain[call[c].depth],
                                         call[c].hdr)),
            ![c].depth = @ - 1]
    /\ UNCHANGED <<middlewares, muWriter, muReaders, w, used, reg0, nops, retryVars, rlVars, sc, ag, sv, rb, cd, rq, lg>>

ClientDoReturn(c) ==
    /\ call[c].pc = "up"
    /\ call[c].depth = 0
    /\ call' = [call EXCEPT ![c].pc = "done"]
    /\ UNCHANGED <<middlewares, muWriter, muReaders, w, used, reg0, nops, retryVars, rlVars, sc, ag, sv, rb, cd, rq, lg>>

\* ------------------------------------------------------------------------
\* Client.GetMiddlewares and a caller that mutates the slice it returned
\* ------------------------------------------------------------------------
\* the returned slice: its elements, whether its backing array is the
\* registry's, and how many returned slices had been mutated when it was taken
GetMiddlewaresResultShared(reg, after) ==
    [array |-> "registry", elems |-> reg, after |-> after]
GetMiddlewaresResult(reg, after) ==
    [array |-> "fresh",
     elems |-> CopySlice([i \in 1..Len(reg) |-> NilMw], reg),
     after |-> after]

\* c.mu.RLock(); mws := make(..., len(c.middlewares)); copy(mws, c.middlewares)
GetMiddlewares(t) ==
    /\ w[t].pc = "idle"
    /\ CanRLock
    /\ muReaders' = muReaders \cup {t}
    /\ w' = [w EXCEPT ![t].pc = "get",
                      ![t].op = [kind |-> "get", mw |-> NilMw],
                      ![t].local = GetMiddlewaresResult(middlewares,
                          Cardinality({u \in Writers : w[u].pc = "mutated"}))]
    /\ UNCHANGED <<middlewares, muWriter, call, used, reg0, nops, retryVars, rlVars, sc, ag, sv, rb, cd, rq, lg>>

\* deferred c.mu.RUnlock(); return mws
GetMiddlewaresReturn(t) ==
    /\ w[t].pc = "get"
    /\ muReaders' = muReaders \ {t}
    /\ w' = [w EXCEPT ![t].pc = "got"]
    /\ UNCHANGED <<middlewares, muWriter, call, used, reg0, nops, retryVars, rlVars, sc, ag, sv, rb, cd, rq, lg>>

\* the caller overwrites an element of the returned slice, truncates it or
\* appends to it; an element store goes to the slice's backing array
SnapshotMutate(t) ==
    /\ w[t].pc = "got"
    /\ LET s == w[t].local.elems IN
        \/ \E i \in 1..Len(s) :
            /\ w' = [w EXCEPT ![t].pc = "mutated",
                              ![t].local.elems[i] = Mw("B", t)]
            /\ middlewares' = IF w[t].local.array = "registry"
                              THEN [middlewares EXCEPT ![i] = Mw("B", t)]
                              ELSE middlewares
        \/ /\ w' = [w EXCEPT ![t].pc = "mutated", ![t].local.elems = << >>]
           /\ UNCHANGED middlewares
        \/ /\ w' = [w EXCEPT ![t].pc = "mutated",
                             ![t].local.elems = Append(s, Mw("B", t))]
           /\ UNCHANGED middlewares
    /\ UNCHANGED <<muWriter, muReaders, call, used, reg0, nops, retryVars, rlVars, sc, ag, sv, rb, cd, rq, lg>>

\* ------------------------------------------------------------------------
\* Construction (NewClient, WithMiddlewares)
\* ------------------------------------------------------------------------
InitRegs == { << >>, <<Mw("A", 0)>>, <<Mw("A", 0), Mw("B", 0)>> }

ClientInit ==
    /\ middlewares \in InitRegs
    /\ reg0 = middlewares
    /\ muWriter = 0
    /\ muReaders = {}
    /\ w = [t \in Writers |-> IdleWriter]
    /\ call = [c \in Callers |-> IdleCall]
    /\ used = << >>
    /\ nops = 0

ClientIdle ==
    /\ middlewares = << >>
    /\ reg0 = << >>
    /\ muWriter = 0
    /\ muReaders = {}
    /\ w = [t \in Writers |-> IdleWriter]
    /\ call = [c \in Callers |-> IdleCall]
    /\ used = << >>
    /\ nops = 0

\* ------------------------------------------------------------------------
\* Retry strategies (ConstantDelayStrategy, ExponentialBackoffStrategy)
\* ------------------------------------------------------------------------
MaxK == 2            \* largest MaxAttempts a strategy is configured with

RetryableStatusCodes == {408, 429, 500, 502, 503, 504}
StrategyKinds == {"constant", "exponential"}
StatusSets == {RetryableStatusCodes, {503}}

\* errors a round trip may return: a net.Error, a net.Error whose Timeout()
\* is true, and an error that is no net.Error
NetErrors == {"net", "netTimeout"}
InnerErrors == NetErrors \cup {"other"}

Resp(status, retryAfter, bodyNil) ==
    [status |-> status, retryAfter |-> retryAfter, bodyNil |-> bodyNil,
     drained |-> FALSE, closes |-> 0]
NilResp == Resp(0, FALSE, TRUE)

MaxAttemptsReachedStrict(s, attempt) == attempt > s.maxAttempts
MaxAttemptsReached(s, attempt) == attempt >= s.maxAttempts

ConstantShouldRetry(s, attempt, resp, err) ==
    IF MaxAttemptsReached(s, attempt) THEN FALSE
    ELSE IF err # "none" THEN err \in NetErrors
    ELSE IF resp # NilResp THEN resp.status \in s.statuses
    ELSE FALSE

ExponentialShouldRetry(s, attempt, resp, err) ==
    IF MaxAttemptsReached(s, attempt) THEN FALSE
    ELSE IF err # "none" THEN err \in NetErrors
    ELSE IF resp # NilResp
         THEN \/ resp.status \in s.statuses
              \/ resp.status = 429 /\ resp.retryAfter
    ELSE FALSE

ShouldRetryAnyError(s, attempt, resp, err) ==
    IF MaxAttemptsReached(s, attempt) THEN FALSE
    ELSE IF err # "none" THEN TRUE
    ELSE IF resp # NilResp THEN resp.status \in s.statuses
    ELSE FALSE
ShouldRetry(s, attempt, resp, err) ==
    IF s.kind = "constant" THEN ConstantShouldRetry(s, attempt, resp, err)
    ELSE ExponentialShouldRetry(s, attempt, resp, err)

\* ------------------------------------------------------------------------
\* retryMiddleware.roundTrip (middlewares/retry.go)
\* ------------------------------------------------------------------------
Err(kind, attempts, last, cause) ==
    [kind |-> kind, attempts |-> attempts, last |-> last, cause |-> cause]
NoErr == Err("none", 0, "none", "none")
CtxError(c) == Err("ctx", 0, c, c)
CopyError == Err("copy", 0, "read", "read")

\* the error after the loop: a net timeout becomes a TimeoutError, and any
\* error is wrapped in RetryError{Attempts: attempt + 1}
RetryErrorRetries(attempt, err) ==
    IF err = "none" THEN NoErr
    ELSE Err("RetryError", attempt,
             IF err = "netTimeout" THEN "TimeoutError" ELSE err, err)
RetryError(attempt, err) ==
    IF err = "none" THEN NoErr
    ELSE Err("RetryError", attempt + 1,
             IF err = "netTimeout" THEN "TimeoutError" ELSE err, err)

\* req.Context().Err() != nil at the top of the loop
NeverCancelled(c) == FALSE
Cancelled(c) == c # "none"

\* attempt > 0: the attempt carries X-Retry-Attempt
SetsRetryHeaderAlways(attempt) == attempt >= 0
SetsRetryHeader(attempt) == attempt > 0

\* req.Body = io.NopCloser(bytes.NewReader(buf.Bytes())): the offset of the
\* reader handed to the attempt, given the offset of the previous reader
RebindBodyKeep(off) == off
RebindBody(off) == 0

\* DrainAndClose(resp)
DrainAndCloseSkip(resp) == resp
DrainAndClose(resp) ==
    IF resp.bodyNil THEN resp
    ELSE [resp EXCEPT !.drained = TRUE, !.closes = @ + 1]

NoBody == [kind |-> "nil", data |-> << >>]
BodyInputs == { NoBody,
                [kind |-> "bytes", data |-> <<7, 8>>],
                [kind |-> "error", data |-> <<7>>] }

NoRet == [done |-> FALSE, resp |-> 0, err |-> NoErr]
RetryStart == [pc |-> "entry", attempt |-> 0, hasBuf |-> FALSE, buf |-> << >>,
               bodyOff |-> 0, hdr |-> -1, resp |-> 0, err |-> "none",
               enteredCancelled |-> FALSE, cancelledInWait |-> FALSE]

\* what the request's body reader still delivers
Remaining(buf, off) == SubSeq(buf, off + 1, Len(buf))

\* lines 92-103: the body, if any, is copied into the replay buffer
RetryEnter ==
    /\ r.pc = "entry"
    /\ IF rin.body.kind = "error"
       THEN /\ ret' = [done |-> TRUE, resp |-> 0, err |-> CopyError]
            /\ r' = [r EXCEPT !.pc = "done", !.enteredCancelled = (ctx # "none")]
       ELSE /\ ret' = ret
            /\ r' = [r EXCEPT !.pc = "top",
                              !.hasBuf = rin.body.kind # "nil",
                              !.buf = rin.body.data,
                              !.bodyOff = Len(rin.body.data),
                              !.hdr = rin.hdr0,
                              !.enteredCancelled = (ctx # "none")]
    /\ UNCHANGED <<rin, ctx, inner, resps, clientVars, rlVars, sc, ag, sv, rb, cd, rq, lg>>

\* lines 110-126: the context check, the body rebind, the header, next(req)
RetryAttempt ==
    /\ r.pc = "top"
    /\ IF Cancelled(ctx)
       THEN /\ ret' = [done |-> TRUE, resp |-> 0, err |-> CtxError(ctx)]
            /\ r' = [r EXCEPT !.pc = "done"]
            /\ inner' = inner
       ELSE LET off == IF r.hasBuf THEN RebindBody(r.bodyOff) ELSE 0
                hdr == IF SetsRetryHeader(r.attempt) THEN r.attempt ELSE r.hdr
            IN  /\ r' = [r EXCEPT !.pc = "inner", !.bodyOff = off, !.hdr = hdr]
                /\ inner' = [inner EXCEPT
                        !.calls = Append(@, [hdr |-> hdr,
                                             hasBody |-> r.hasBuf,
                                             body |-> Remaining(r.buf, off),
                                             busy |-> inner.inflight,
                                             read |-> 0,
                                             out |-> "pending"]),
                        !.inflight = @ + 1]
                /\ ret' = ret
    /\ UNCHANGED <<rin, ctx, resps, clientVars, rlVars, sc, ag, sv, rb, cd, rq, lg>>

\* next(req) reads some of the body and returns an error ...
InnerFails ==
    /\ r.pc = "inner"
    /\ \E e \in InnerErrors, n \in 0..(Len(r.buf) - r.bodyOff) :
        /\ r' = [r EXCEPT !.pc = "decide", !.err = e, !.resp = 0,
                          !.bodyOff = @ + n]
        /\ inner' = [inner EXCEPT !.calls[Len(inner.calls)].out = e,
                                  !.calls[Len(inner.calls)].read = n,
                                  !.inflight = @ - 1]
    /\ UNCHANGED <<rin, ctx, resps, ret, clientVars, rlVars, sc, ag, sv, rb, cd, rq, lg>>

\* ... or a response
InnerResponds ==
    /\ r.pc = "inner"
    /\ \E resp \in { Resp(200, FALSE, FALSE), Resp(503, FALSE, FALSE),
                     Resp(503, FALSE, TRUE), Resp(429, FALSE, FALSE),
                     Resp(429, TRUE, FALSE) },
          n \in 0..(Len(r.buf) - r.bodyOff) :
        /\ resps' = Append(resps, resp)
        /\ r' = [r EXCEPT !.pc = "decide", !.err = "none",
                          !.resp = Len(resps) + 1, !.bodyOff = @ + n]
        /\ inner' = [inner EXCEPT !.calls[Len(inner.calls)].out = "response",
                                  !.calls[Len(inner.calls)].read = n,
                                  !.inflight = @ - 1]
    /\ UNCHANGED <<rin, ctx, ret, clientVars, rlVars, sc, ag, sv, rb, cd, rq, lg>>

CurrentResp == IF r.resp = 0 THEN NilResp ELSE resps[r.resp]

\* lines 129-131 and 151-162: the strategy declines, the loop is left
RetryBreak ==
    /\ r.pc = "decide"
    /\ ~ShouldRetry(rin.strategy, r.attempt, CurrentResp, r.err)
    /\ ret' = [done |-> TRUE,
               resp |-> IF r.err = "none" THEN r.resp ELSE 0,
               err |-> RetryError(r.attempt, r.err)]
    /\ r' = [r EXCEPT !.pc = "done"]
    /\ UNCHANGED <<rin, ctx, inner, resps, clientVars, rlVars, sc, ag, sv, rb, cd, rq, lg>>

\* lines 133-142: the response is released, the attempt counted
RetryAgain ==
    /\ r.pc = "decide"
    /\ ShouldRetry(rin.strategy, r.attempt, CurrentResp, r.err)
    /\ resps' = IF r.resp # 0
                THEN [resps EXCEPT ![r.resp] = DrainAndClose(@)]
                ELSE resps
    /\ r' = [r EXCEPT !.pc = "wait", !.attempt = @ + 1]
    /\ UNCHANGED <<rin, ctx, inner, ret, clientVars, rlVars, sc, ag, sv, rb, cd, rq, lg>>

\* lines 144-145: return nil, req.Context().Err()
DelayCancelledKeepsResp(c, resp) == [done |-> TRUE, resp |-> resp, err |-> CtxError(c)]
DelayCancelled(c, resp) == [done |-> TRUE, resp |-> 0, err |-> CtxError(c)]

\* lines 143-148: select on the context and the delay timer
RetryDelayCancelled ==
    /\ r.pc = "wait"
    /\ ctx # "none"
    /\ ret' = DelayCancelled(ctx, r.resp)
    /\ r' = [r EXCEPT !.pc = "done"]
    /\ UNCHANGED <<rin, ctx, inner, resps, clientVars, rlVars, sc, ag, sv, rb, cd, rq, lg>>

RetryDelayElapsed ==
    /\ r.pc = "wait"
    /\ r' = [r EXCEPT !.pc = "top"]
    /\ UNCHANGED <<rin, ctx, inner, resps, ret, clientVars, rlVars, sc, ag, sv, rb, cd, rq, lg>>

\* the request's context is cancelled or its deadline passes
CtxCancel ==
    /\ ctx = "none"
    /\ r.pc # "done"
    /\ ctx' \in {"canceled", "deadline"}
    /\ r' = [r EXCEPT !.cancelledInWait = (r.pc = "wait")]
    /\ UNCHANGED <<rin, inner, resps, ret, clientVars, rlVars, sc, ag, sv, rb, cd, rq, lg>>

RetryInit ==
    /\ rin \in [strategy : [kind : StrategyKinds, maxAttempts : (-1)..MaxK,
                            statuses : StatusSets],
                body : BodyInputs,
                hdr0 : {-1, 9}]
    /\ r = RetryStart
    /\ ctx \in {"none", "canceled"}
    /\ inner = [calls |-> << >>, inflight |-> 0]
    /\ resps = << >>
    /\ ret = NoRet

RetryIdle ==
    /\ rin = [strategy |-> [kind |-> "constant", maxAttempts |-> 0,
                            statuses |-> RetryableStatusCodes],
              body |-> NoBody, hdr0 |-> -1]
    /\ r = RetryStart
    /\ ctx = "none"
    /\ inner = [calls |-> << >>, inflight |-> 0]
    /\ resps = << >>
    /\ ret = NoRet

\* ------------------------------------------------------------------------
\* rateLimitMiddleware (token bucket)
\* ------------------------------------------------------------------------
NumRLCallers == 2    \* goroutines calling through the rate limiter
MaxCalls == 4        \* calls made through the limiter, all goroutines together
MaxTime == 1         \* ticks the clock runs for

\* Time is counted in ticks of 100ms and tokens in tenths of a token, so a
\* rate of R requests per second adds R tenths per tick.
TicksPerSecond == 10
OneToken == TicksPerSecond

RLCallers == 1..NumRLCallers

DefaultRateLimitOptions ==
    [RequestsPerSecond |-> 10, Burst |-> 1, WaitOnLimit |-> TRUE,
     MaxWaitTime |-> 5 * TicksPerSecond]

\* RateLimitMiddleware(options): invalid values fall back to the defaults
NormalizeOptions(o) ==
    [RequestsPerSecond |-> IF o.RequestsPerSecond <= 0
                           THEN DefaultRateLimitOptions.RequestsPerSecond
                           ELSE o.RequestsPerSecond,
     Burst |-> IF o.Burst < 0 THEN DefaultRateLimitOptions.Burst ELSE o.Burst,
     WaitOnLimit |-> o.WaitOnLimit,
     MaxWaitTime |-> IF o.MaxWaitTime < 0
                     THEN DefaultRateLimitOptions.MaxWaitTime
                     ELSE o.MaxWaitTime]

RawOptions == [RequestsPerSecond : {0, 5}, Burst : {-1, 0, 2},
               WaitOnLimit : BOOLEAN, MaxWaitTime : {-1, 1}]

Min(a, b) == IF a < b THEN a ELSE b
Max(a, b) == IF a > b THEN a ELSE b

\* maxTokens: the burst, but at least one token
MaxTokens(o) == Max(o.Burst, 1) * OneToken

\* lines 397-408: tokens after the refill for the time elapsed
Refill(tok, last, t, o) ==
    Min(tok + (t - last) * o.RequestsPerSecond, MaxTokens(o))

\* line 413: time.Duration((1.0 - m.tokens) * float64(time.Second) / rate)
WaitTime(tok, o) == (OneToken - tok) \div o.RequestsPerSecond

\* line 415
RejectsNever(waitTime, o) == FALSE
Rejects(waitTime, o) == ~o.WaitOnLimit \/ waitTime > o.MaxWaitTime

\* m.mu.Unlock() on the RateLimitExceeded path (line 417)
UnlockOnRejectMissing(c) == c
UnlockOnReject(c) == 0

\* m.mu.Unlock() before the wait (line 429)
UnlockBeforeWaitMissing(c) == c
UnlockBeforeWait(c) == 0

\* timer.C delivers once waitTime has passed (lines 425, 433)
TimerFiredAlways(deadline) == TRUE
TimerFired(deadline) == now >= deadline

RLIdleCaller == [pc |-> "idle", deadline |-> 0, cancelled |-> FALSE,
                 waited |-> FALSE]
RLEntry(t, out, before, retryAfter, limit) ==
    [t |-> t, out |-> out, before |-> before, retryAfter |-> retryAfter,
     limit |-> limit]

\* m.mu.Lock() at line 393
RLLock(c) ==
    /\ rl[c].pc = "idle"
    /\ rlLog.started < MaxCalls
    /\ rlMu = 0
    /\ rlMu' = c
    /\ rl' = [rl EXCEPT ![c].pc = "locked", ![c].cancelled = FALSE,
                        ![c].waited = FALSE]
    /\ rlLog' = [rlLog EXCEPT !.started = @ + 1]
    /\ UNCHANGED <<opts, tokens, lastTimestamp, now, clientVars, retryVars, sc, ag, sv, rb, cd, rq, lg>>

\* lines 396-445: refill, then admit, reject or start waiting
RLCheck(c) ==
    /\ rl[c].pc = "locked"
    /\ lastTimestamp' = now
    /\ LET tok == Refill(tokens, lastTimestamp, now, opts)
           waitTime == WaitTime(tok, opts)
       IN  IF tok < OneToken
           THEN IF Rejects(waitTime, opts)
                THEN /\ tokens' = tok
                     /\ rlMu' = UnlockOnReject(c)
                     /\ rl' = [rl EXCEPT ![c] = RLIdleCaller]
                     /\ rlLog' = [rlLog EXCEPT !.calls = Append(@,
                            RLEntry(now, "exceeded", tok, waitTime,
                                    opts.RequestsPerSecond))]
                ELSE /\ tokens' = tok
                     /\ rlMu' = UnlockBeforeWait(c)
                     /\ rl' = [rl EXCEPT ![c].pc = "wait", ![c].waited = TRUE,
                                         ![c].deadline = now + waitTime]
                     /\ rlLog' = [rlLog EXCEPT !.calls = Append(@,
                            RLEntry(now, "wait", tok, waitTime,
                                    opts.RequestsPerSecond))]
           ELSE /\ tokens' = tok - OneToken
                /\ rlMu' = 0
                /\ rl' = [rl EXCEPT ![c].pc = "inner"]
                /\ rlLog' = [rlLog EXCEPT !.calls = Append(@,
                        RLEntry(now, "admit", tok, 0, opts.RequestsPerSecond))]
    /\ UNCHANGED <<opts, now, clientVars, retryVars, sc, ag, sv, rb, cd, rq, lg>>

\* line 431: the request's context is done while the call waits
RLWaitCancelled(c) ==
    /\ rl[c].pc = "wait"
    /\ rl[c].cancelled
    /\ rl' = [rl EXCEPT ![c] = RLIdleCaller]
    /\ rlLog' = [rlLog EXCEPT !.ctxErrs = @ + 1]
    /\ UNCHANGED <<opts, tokens, lastTimestamp, rlMu, now, clientVars, retryVars, sc, ag, sv, rb, cd, rq, lg>>

\* line 433: the timer fires
RLTimerFired(c) ==
    /\ rl[c].pc = "wait"
    /\ TimerFired(rl[c].deadline)
    /\ rl' = [rl EXCEPT ![c].pc = "relock"]
    /\ UNCHANGED <<opts, tokens, lastTimestamp, rlMu, now, rlLog, clientVars, retryVars, sc, ag, sv, rb, cd, rq, lg>>

\* line 435: m.mu.Lock() after the wait
RLRelock(c) ==
    /\ rl[c].pc = "relock"
    /\ rlMu = 0
    /\ rlMu' = c
    /\ rl' = [rl EXCEPT ![c].pc = "relocked"]
    /\ UNCHANGED <<opts, tokens, lastTimestamp, now, rlLog, clientVars, retryVars, sc, ag, sv, rb, cd, rq, lg>>

\* lines 439-445: timestamp and tokens reset, then the token is consumed
RLAfterWait(c) ==
    /\ rl[c].pc = "relocked"
    /\ lastTimestamp' = now
    /\ tokens' = 0 - OneToken
    /\ rlMu' = 0
    /\ rl' = [rl EXCEPT ![c].pc = "inner"]
    /\ rlLog' = [rlLog EXCEPT !.waitsDone = @ + 1]
    /\ UNCHANGED <<opts, now, clientVars, retryVars, sc, ag, sv, rb, cd, rq, lg>>

\* line 448: next(req)
RLInner(c) ==
    /\ rl[c].pc = "inner"
    /\ rl' = [rl EXCEPT ![c] = RLIdleCaller]
    /\ rlLog' = [rlLog EXCEPT !.inner = @ + 1]
    /\ UNCHANGED <<opts, tokens, lastTimestamp, rlMu, now, clientVars, retryVars, sc, ag, sv, rb, cd, rq, lg>>

\* the context of a waiting call is cancelled
RLCtxCancel(c) ==
    /\ rl[c].pc = "wait"
    /\ ~rl[c].cancelled
    /\ rl' = [rl EXCEPT ![c].cancelled = TRUE]
    /\ UNCHANGED <<opts, tokens, lastTimestamp, rlMu, now, rlLog, clientVars, retryVars, sc, ag, sv, rb, cd, rq, lg>>

Tick ==
    /\ now < MaxTime
    /\ now' = now + 1
    /\ UNCHANGED <<opts, tokens, lastTimestamp, rlMu, rl, rlLog, clientVars, retryVars, sc, ag, sv, rb, cd, rq, lg>>

EmptyRLLog == [calls |-> << >>, started |-> 0, inner |-> 0, ctxErrs |-> 0, waitsDone |-> 0]

\* RateLimitMiddleware(options) returns the limiter with a full bucket
RLInit ==
    /\ opts \in {NormalizeOptions(o) : o \in RawOptions}
    /\ tokens = opts.Burst * OneToken
    /\ lastTimestamp = 0
    /\ rlMu = 0
    /\ now = 0
    /\ rl = [c \in RLCallers |-> RLIdleCaller]
    /\ rlLog = EmptyRLLog

RLIdle ==
    /\ opts = DefaultRateLimitOptions
    /\ tokens = opts.Burst * OneToken
    /\ lastTimestamp = 0
    /\ rlMu = 0
    /\ now = 0
    /\ rl = [c \in RLCallers |-> RLIdleCaller]
    /\ rlLog = EmptyRLLog

\* ------------------------------------------------------------------------
\* Response.StreamChunksWithContext (core/response.go)
\* ------------------------------------------------------------------------
MaxChunks == 2       \* reads of the body that deliver data without ending it

\* the body as the outcomes of its successive Read calls: `chunks` reads
\* that return data, then one that ends the body with io.EOF (with or
\* without data) or with an error
StreamBodies == [chunks : 0..MaxChunks, end : {"eof", "eofData", "error"}]

ReadResult(n, err) == [n |-> n, err |-> err]

\* r.Body.Read(buf)
BodyRead(body) ==
    IF body.chunks > 0 THEN ReadResult(1, "nil")
    ELSE IF body.end = "eof" THEN ReadResult(0, "EOF")
    ELSE IF body.end = "eofData" THEN ReadResult(1, "EOF")
    ELSE ReadResult(0, "error")

StreamStart(c, body) ==
    [pc |-> "loop", ctx |-> c, enteredCancelled |-> (c # "none"),
     body |-> body, reader |-> "none", res |-> ReadResult(0, "nil"),
     readChan |-> << >>, callbacks |-> 0, BytesRead |-> 0, ret |-> "none"]

notSc == <<clientVars, retryVars, rlVars, ag, sv, rb, cd, rq, lg>>

\* go func() { n, err := r.Body.Read(buf); readChan <- ... }()
StreamSpawn ==
    /\ sc.pc = "loop"
    /\ sc' = [sc EXCEPT !.pc = "select", !.reader = "read"]
    /\ UNCHANGED notSc

StreamReaderRead ==
    /\ sc.reader = "read"
    /\ sc' = [sc EXCEPT !.reader = "send",
                        !.res = BodyRead(sc.body),
                        !.body.chunks = IF @ > 0 THEN @ - 1 ELSE 0]
    /\ UNCHANGED notSc

\* readChan has capacity 1
StreamReaderSend ==
    /\ sc.reader = "send"
    /\ Len(sc.readChan) < 1
    /\ sc' = [sc EXCEPT !.reader = "none", !.readChan = Append(@, sc.res)]
    /\ UNCHANGED notSc

\* select: case <-ctx.Done()
StreamSelectDone ==
    /\ sc.pc = "select"
    /\ sc.ctx # "none"
    /\ sc' = [sc EXCEPT !.pc = "done", !.ret = sc.ctx]
    /\ UNCHANGED notSc

\* select: case result := <-readChan
StreamSelectRead ==
    /\ sc.pc = "select"
    /\ sc.readChan # << >>
    /\ LET result == Head(sc.readChan) IN
        sc' = [sc EXCEPT
            !.readChan = Tail(@),
            !.BytesRead = @ + result.n,
            !.callbacks = IF result.n > 0 THEN @ + 1 ELSE @,
            !.pc = IF result.err = "nil" THEN "loop" ELSE "done",
            !.ret = IF result.err = "EOF" THEN "nil"
                    ELSE IF result.err = "nil" THEN @
                    ELSE "error while streaming chunks"]
    /\ UNCHANGED notSc

\* the caller's context is cancelled or its deadline passes
StreamCtxCancel ==
    /\ sc.pc # "done"
    /\ sc.ctx = "none"
    /\ \E e \in {"canceled", "deadline"} : sc' = [sc EXCEPT !.ctx = e]
    /\ UNCHANGED notSc

StreamInit ==
    \E c \in {"none", "canceled", "deadline"}, body \in StreamBodies :
        sc = StreamStart(c, body)

\* ------------------------------------------------------------------------
\* Async layer (async.go): DoAsync / DoStreamAsync / ExecuteAsync tasks and
\* the aggregator of DoGroupAsyncWithOptions, ExecuteGroupAsyncWithOptions
\* and JoinAsyncResponses
\* ------------------------------------------------------------------------
NumTasks == 2        \* requests of a group operation

Tasks == 1..NumTasks

\* AsyncResponse{Response, Error}, tagged with the task that produced it
AsyncResponse(task, resp, err) == [task |-> task, resp |-> resp, err |-> err]
ZeroAsyncResponse == AsyncResponse(0, FALSE, "none")

\* AsyncResponse{Error: fmt.Errorf("panic occurred: %v", r)}
PanicResultEmpty(i) == AsyncResponse(i, FALSE, "none")
PanicResult(i) == AsyncResponse(i, FALSE, "panic occurred")

\* AsyncResponse{Error: ctx.Err()}
CtxResult(c) == AsyncResponse(0, FALSE, c)

Chan == [buf |-> << >>, closed |-> FALSE, sent |-> << >>]
SendChan(ch, v) == [ch EXCEPT !.buf = Append(@, v), !.sent = Append(@, v)]
CloseChan(ch) == [ch EXCEPT !.closed = TRUE]

\* results[index] = ...: the slot a task's goroutine writes
SlotIndexFirst(index) == 1
SlotIndex(index) == index

\* if cancelFuncs[index] != nil { cancelFuncs[index]() ... }
SlotCancelsNever(cancelFunc) == FALSE
SlotCancels(cancelFunc) == cancelFunc

\* wg.Wait() returns
WaitDoneEarly(wg) == TRUE
WaitDone(wg) == wg = 0

\* the state once the launching function has returned: every task runs
\* c.Do under its context and the aggregator goroutine is about to start
AsyncStart(c, timeout) ==
    [ctx |-> c, timeout |-> timeout,
     task |-> [i \in Tasks |-> "run"],
     ch |-> [i \in Tasks |-> Chan],
     cancelFuncs |-> [i \in Tasks |-> timeout > 0],
     cancels |-> [i \in Tasks |-> 0],
     slot |-> [i \in Tasks |-> "idle"],
     how |-> [i \in Tasks |-> "none"],
     results |-> << >>,
     wg |-> 0,
     apc |-> "start",
     out |-> Chan,
     panicked |-> [i \in Tasks |-> FALSE],
     reordered |-> FALSE]

notAg == <<clientVars, retryVars, rlVars, sc, sv, rb, cd, rq, lg>>

\* a task completes while a task of a lower index is still running
Overtakes(i) == \E j \in 1..(i - 1) : ag.task[j] = "run"

\* res, err := c.Do(ctx, req); responseChan <- AsyncResponse{res, err}:
\* c.Do returns a response, or an error (of the transport or of its token)
AsyncDoReturns(i) ==
    /\ ag.task[i] = "run"
    /\ \E v \in {AsyncResponse(i, TRUE, "none"), AsyncResponse(i, FALSE, "error")} :
        ag' = [ag EXCEPT !.task[i] = "sent",
                         !.ch[i] = SendChan(@, v),
                         !.reordered = @ \/ Overtakes(i)]
    /\ UNCHANGED notAg

\* the transport or a middleware panics inside c.Do; the deferred handler
\* recovers and sends the panic-tagged result
AsyncDoPanics(i) ==
    /\ ag.task[i] = "run"
    /\ ag' = [ag EXCEPT !.task[i] = "sent",
                        !.ch[i] = SendChan(@, PanicResult(i)),
                        !.panicked[i] = TRUE,
                        !.reordered = @ \/ Overtakes(i)]
    /\ UNCHANGED notAg

\* close(responseChan), on the normal path and in the recover handler
AsyncClose(i) ==
    /\ ag.task[i] = "sent"
    /\ ag' = [ag EXCEPT !.task[i] = "closed", !.ch[i] = CloseChan(@)]
    /\ UNCHANGED notAg

\* results := make(...); wg.Add(len(channels)); one goroutine per channel
AggStart ==
    /\ ag.apc = "start"
    /\ ag' = [ag EXCEPT !.apc = "wait",
                        !.results = [i \in Tasks |-> ZeroAsyncResponse],
                        !.wg = NumTasks,
                        !.slot = [i \in Tasks |-> "select"]]
    /\ UNCHANGED notAg

\* select: case resp := <-ch
SlotRecv(i) ==
    /\ ag.slot[i] = "select"
    /\ ag.ch[i].buf # << >>
    /\ ag' = [ag EXCEPT !.slot[i] = "cleanup",
                        !.how[i] = "recv",
                        !.ch[i].buf = Tail(@),
                        !.results[SlotIndex(i)] = Head(ag.ch[i].buf)]
    /\ UNCHANGED notAg

\* select: case <-ctx.Done()
SlotCtxDone(i) ==
    /\ ag.slot[i] = "select"
    /\ ag.ctx # "none"
    /\ ag' = [ag EXCEPT !.slot[i] = "cleanup",
                        !.how[i] = "ctx",
                        !.results[SlotIndex(i)] = CtxResult(ag.ctx)]
    /\ UNCHANGED notAg

\* deferred: the sub-token's cancel, then wg.Done()
SlotCleanup(i) ==
    /\ ag.slot[i] = "cleanup"
    /\ IF SlotCancels(ag.cancelFuncs[i])
       THEN ag' = [ag EXCEPT !.slot[i] = "done",
                             !.wg = @ - 1,
                             !.cancelFuncs[i] = FALSE,
                             !.cancels[i] = @ + 1]
       ELSE ag' = [ag EXCEPT !.slot[i] = "done", !.wg = @ - 1]
    /\ UNCHANGED notAg

AggWait ==
    /\ ag.apc = "wait"
    /\ WaitDone(ag.wg)
    /\ ag' = [ag EXCEPT !.apc = "send"]
    /\ UNCHANGED notAg

\* out <- results
AggSend ==
    /\ ag.apc = "send"
    /\ ag' = [ag EXCEPT !.apc = "close", !.out = SendChan(@, ag.results)]
    /\ UNCHANGED notAg

\* close(out)
AggClose ==
    /\ ag.apc = "close"
    /\ ag' = [ag EXCEPT !.apc = "defer", !.out = CloseChan(@)]
    /\ UNCHANGED notAg

\* deferred: every cancel function still set is called; recover() is nil
AggDefer ==
    /\ ag.apc = "defer"
    /\ ag' = [ag EXCEPT
            !.apc = "done",
            !.cancels = [i \in Tasks |->
                            IF ag.cancelFuncs[i] THEN @[i] + 1 ELSE @[i]]]
    /\ UNCHANGED notAg

\* the parent token is cancelled or its deadline passes
AsyncParentCancel ==
    /\ ag.ctx = "none"
    /\ ag.apc # "done"
    /\ ag' = [ag EXCEPT !.ctx = "canceled"]
    /\ UNCHANGED notAg

AsyncInit ==
    \E c \in {"none", "canceled"}, timeout \in {0, 1} :
        ag = AsyncStart(c, timeout)

\* ------------------------------------------------------------------------
\* Size validation middleware (middlewares/sizelimit.go)
\* ------------------------------------------------------------------------
MaxSize == 2         \* largest limit configured; lengths go one beyond it

\* core.SizeConfig: the setters and WithSizeConfig reject negative values
SizeConfigs == [MaxRequestBodySize : 0..MaxSize,
                MaxResponseBodySize : 0..MaxSize,
                MaxStreamSize : 0..MaxSize]

\* http.Request / http.Response: whether Body is non-nil, and ContentLength
\* (-1 when unknown)
Lengths == -1..(MaxSize + 1)
SizeRequests == [hasBody : BOOLEAN, ContentLength : Lengths]
SizeResponses == [hasBody : BOOLEAN, ContentLength : Lengths]

SizeError(type, current, max) ==
    [kind |-> "SizeError", Type |-> type, Current |-> current, Max |-> max]
NoSizeError == [kind |-> "none", Type |-> "", Current |-> 0, Max |-> 0]
InnerSizeError == [kind |-> "inner", Type |-> "", Current |-> 0, Max |-> 0]

\* &SizeError{Type: "request", Max: config.MaxRequestBodySize,
\*            Current: req.ContentLength}
RequestSizeErrorSwapped(config, req) ==
    SizeError("request", config.MaxRequestBodySize, req.ContentLength)
RequestSizeError(config, req) ==
    SizeError("request", req.ContentLength, config.MaxRequestBodySize)

\* req.Body != nil && config.MaxRequestBodySize > 0
RequestLimited(config, req) == req.hasBody /\ config.MaxRequestBodySize > 0

\* req.ContentLength > 0 && req.ContentLength > config.MaxRequestBodySize
RequestTooLarge(config, req) ==
    req.ContentLength > 0 /\ req.ContentLength > config.MaxRequestBodySize

\* resp.Body != nil && (MaxResponseBodySize > 0 || MaxStreamSize > 0)
ResponseLimited(config, resp) ==
    resp.hasBody /\ (config.MaxResponseBodySize > 0 \/ config.MaxStreamSize > 0)

\* maxSize := config.MaxResponseBodySize; if maxSize == 0 { MaxStreamSize }
ResponseMaxSize(config) ==
    IF config.MaxResponseBodySize = 0 THEN config.MaxStreamSize
    ELSE config.MaxResponseBodySize

ResponseTooLarge(config, resp) ==
    resp.ContentLength > 0 /\ resp.ContentLength > ResponseMaxSize(config)

\* _ = resp.Body.Close() on the short-circuit path
CloseOversizedSkipped(closes) == closes
CloseOversized(closes) == closes + 1

\* newSizeLimitedReader(body, maxSize, sizeType) wrapped around a body
NoGuard == [maxSize |-> 0, sizeType |-> "none"]
Guard(maxSize, sizeType) == [maxSize |-> maxSize, sizeType |-> sizeType]

SizeStart(config, req) ==
    [pc |-> "request", config |-> config, req |-> req, reqGuard |-> NoGuard,
     innerCalls |-> 0, inner |-> "none", resp |-> [hasBody |-> FALSE, ContentLength |-> 0],
     respGuard |-> NoGuard, closes |-> 0,
     ret |-> [resp |-> FALSE, err |-> NoSizeError]]

notSv == <<clientVars, retryVars, rlVars, sc, ag, rb, cd, rq, lg>>

\* lines 72-82: the declared request length is checked, the body is guarded
SizeCheckRequest ==
    /\ sv.pc = "request"
    /\ IF RequestLimited(sv.config, sv.req) /\ RequestTooLarge(sv.config, sv.req)
       THEN sv' = [sv EXCEPT !.pc = "done",
                             !.ret = [resp |-> FALSE,
                                      err |-> RequestSizeError(sv.config, sv.req)]]
       ELSE sv' = [sv EXCEPT
                !.pc = "inner",
                !.reqGuard = IF RequestLimited(sv.config, sv.req)
                             THEN Guard(sv.config.MaxRequestBodySize, "request")
                             ELSE NoGuard]
    /\ UNCHANGED notSv

\* resp, err := next(req) returns an error
SizeInnerFails ==
    /\ sv.pc = "inner"
    /\ sv' = [sv EXCEPT !.pc = "done", !.innerCalls = @ + 1, !.inner = "error",
                        !.ret = [resp |-> FALSE, err |-> InnerSizeError]]
    /\ UNCHANGED notSv

\* resp, err := next(req) returns a response
SizeInnerResponds ==
    /\ sv.pc = "inner"
    /\ \E resp \in SizeResponses :
        sv' = [sv EXCEPT !.pc = "response", !.innerCalls = @ + 1,
                         !.inner = "response", !.resp = resp]
    /\ UNCHANGED notSv

\* lines 91-110: the declared response length is checked, the body is guarded
SizeCheckResponse ==
    /\ sv.pc = "response"
    /\ IF ResponseLimited(sv.config, sv.resp)
       THEN IF ResponseTooLarge(sv.config, sv.resp)
            THEN sv' = [sv EXCEPT
                    !.pc = "done",
                    !.closes = CloseOversized(@),
                    !.ret = [resp |-> FALSE,
                             err |-> SizeError("response", sv.resp.ContentLength,
                                               ResponseMaxSize(sv.config))]]
            ELSE sv' = [sv EXCEPT
                    !.pc = "done",
                    !.respGuard = Guard(ResponseMaxSize(sv.config), "response"),
                    !.ret = [resp |-> TRUE, err |-> NoSizeError]]
       ELSE sv' = [sv EXCEPT !.pc = "done",
                             !.ret = [resp |-> TRUE, err |-> NoSizeError]]
    /\ UNCHANGED notSv

SizeInit ==
    \E config \in SizeConfigs, req \in SizeRequests : sv = SizeStart(config, req)

\* ------------------------------------------------------------------------
\* Response helpers (core/response.go): JSON, XML, Bytes, String,
\* SaveToFile, Process
\* ------------------------------------------------------------------------
MaxCloses == 2       \* CloseBody calls made by the caller on one response

ResponseMethods == {"JSON", "XML", "Bytes", "String", "SaveToFile", "Process"}
Outcomes == {"ok", "error"}

\* the response's Body: what reading it and closing it return, how often
\* Close has been called and whether the body has been released
ResponseBody(read, close) ==
    [present |-> TRUE, read |-> read, close |-> close, closes |-> 0,
     released |-> FALSE, consumed |-> FALSE]
NilBody == [ResponseBody("ok", "ok") EXCEPT !.present = FALSE]

\* Response.CloseBody: nil response or nil body is a no-op
CloseBodyNoop(body) == body
CloseBody(body) ==
    IF ~body.present THEN body
    ELSE [body EXCEPT !.closes = @ + 1, !.released = TRUE]

\* what CloseBody returns
CloseBodyErrorNilPanics(body) == ~body.present \/ body.close = "error"
CloseBodyError(body) == body.present /\ body.close = "error"

\* the deferred function of JSON, XML, Bytes and SaveToFile: a close error
\* is reported only if the method had no error of its own
AfterClose(method, err, body) ==
    IF method # "Process" /\ err = "none" /\ CloseBodyError(body)
    THEN "failed to close response body"
    ELSE err

RespStart(method, nilResponse, body, create, fileClose) ==
    [pc |-> "call", method |-> method, nilResponse |-> nilResponse,
     body |-> body, create |-> create, fileClose |-> fileClose, err |-> "none",
     calls |-> 0, ret |-> "none"]

notRb == <<clientVars, retryVars, rlVars, sc, ag, sv, cd, rq, lg>>

\* the method's own work: decoding, io.ReadAll, os.Create and io.Copy with
\* the file's deferred close, or the caller's function
RespWork ==
    /\ rb.pc = "call"
    /\ LET readErr == IF rb.body.read = "error" THEN rb.method ELSE "none" IN
       IF rb.method = "Process" /\ rb.nilResponse
       THEN rb' = [rb EXCEPT !.pc = "done", !.err = "nil response"]
       ELSE IF rb.method = "SaveToFile"
       THEN IF rb.create = "error"
            THEN rb' = [rb EXCEPT !.pc = "defer", !.err = "failed to create file"]
            ELSE rb' = [rb EXCEPT
                    !.pc = "defer",
                    !.body.consumed = TRUE,
                    !.err = IF readErr # "none" THEN "failed to save response to file"
                            ELSE IF rb.fileClose = "error" THEN "failed to close file"
                            ELSE "none"]
       ELSE rb' = [rb EXCEPT !.pc = "defer", !.body.consumed = TRUE,
                             !.err = readErr]
    /\ UNCHANGED notRb

\* the deferred r.CloseBody(), and the return
RespDeferredClose ==
    /\ rb.pc = "defer"
    /\ rb' = [rb EXCEPT !.pc = "done",
                        !.body = CloseBody(@),
                        !.err = AfterClose(rb.method, rb.err, rb.body)]
    /\ UNCHANGED notRb

\* the caller calls CloseBody, on a response no helper was called on or
\* after a helper has returned
RespCloseBody ==
    /\ rb.pc \in {"fresh", "done", "closed"}
    /\ rb.calls < MaxCloses
    /\ rb' = [rb EXCEPT !.pc = "closed", !.calls = @ + 1,
                        !.body = CloseBody(@),
                        !.ret = IF CloseBodyError(rb.body) THEN "close failure"
                                ELSE "none"]
    /\ UNCHANGED notRb

\* a response with a body for every method; Process is also called on a
\* Response without an http.Response and on one whose Body is nil, and
\* CloseBody on any response
RespInit ==
    \/ \E method \in ResponseMethods, read \in Outcomes, close \in Outcomes,
          create \in Outcomes, fileClose \in Outcomes :
            rb = RespStart(method, FALSE, ResponseBody(read, close),
                           IF method = "SaveToFile" THEN create ELSE "ok",
                           IF method = "SaveToFile" THEN fileClose ELSE "ok")
    \/ \E nilResponse \in BOOLEAN, fn \in Outcomes :
            rb = RespStart("Process", nilResponse,
                           [NilBody EXCEPT !.read = fn], "ok", "ok")
    \/ \E nilResponse \in BOOLEAN, present \in BOOLEAN, close \in Outcomes :
            rb = [RespStart("CloseBody", nilResponse,
                            IF present /\ ~nilResponse
                            THEN ResponseBody("ok", close) ELSE NilBody,
                            "ok", "ok") EXCEPT !.pc = "fresh"]

\* ------------------------------------------------------------------------
\* Client.Do, Client.DoStream, Client.Execute (client.go) and the phase
\* errors (errors.go)
\* ------------------------------------------------------------------------
MaxBody == 2         \* bytes of a transport response body

\* ClientError{Phase, Message, Cause}
ClientError(phase, msg, cause) == [Phase |-> phase, Message |-> msg, Cause |-> cause]
NoClientError == ClientError("none", "", "none")
NewRequestError(msg, cause) == ClientError("request", msg, cause)
NewTransportError(msg, cause) == ClientError("transport", msg, cause)
NewResponseErrorNoCause(msg, cause) == ClientError("response", msg, "none")
NewResponseError(msg, cause) == ClientError("response", msg, cause)

\* ClientError.Unwrap
Unwrap(e) == e.Cause

\* the body of the transport's response: its bytes, the number of bytes
\* after which Read fails (-1: never), and what Close returns
Bytes(n) == [i \in 1..n |-> i]
TransportBodies ==
    {[data |-> Bytes(n), failAt |-> f, close |-> c] :
        n \in 0..MaxBody, f \in -1..MaxBody, c \in Outcomes}

\* io.ReadAll(resp.Body): the bytes read and whether the read failed
ReadAll(body) ==
    IF body.failAt >= 0 /\ body.failAt <= Len(body.data)
    THEN [data |-> SubSeq(body.data, 1, body.failAt), err |-> "read failure"]
    ELSE [data |-> body.data, err |-> "none"]

\* bodyBuf.Write(data); io.NopCloser(bytes.NewReader(bodyBuf.Bytes()))
BufferedBodyEmpty(data) == [kind |-> "memory", data |-> << >>]
BufferedBody(data) == [kind |-> "memory", data |-> data]

NoResponse == [kind |-> "nil", data |-> << >>]
TransportResponse(body) == [kind |-> "transport", data |-> body.data]

\* Execute's options decide between DoStream and Do
Streams(fn, stream) == fn = "DoStream" \/ (fn = "Execute" /\ stream)

DoStart(fn, autoBuffer, stream, timeout, build, transport, body) ==
    [pc |-> "build", fn |-> fn, autoBuffer |-> autoBuffer,
     stream |-> (fn = "Execute" /\ stream),
     timeout |-> IF fn \in {"Execute", "DoWithTimeout"} THEN timeout ELSE 0,
     build |-> build, transport |-> transport, body |-> body,
     transportCalls |-> 0, read |-> 0, closes |-> 0, subCancelled |-> FALSE,
     res |-> NoResponse, err |-> NoClientError]

notCd == <<clientVars, retryVars, rlVars, sc, ag, sv, rb, rq, lg>>

\* the call returns; the deferred cancel of Execute and of DoWithTimeout
\* releases the sub-token
DoReturn(s) ==
    [s EXCEPT !.pc = "done", !.subCancelled = (s.timeout > 0)]

\* httpReq, err := req.BuildHTTPRequest()
DoBuild ==
    /\ cd.pc = "build"
    /\ IF cd.build = "error"
       THEN cd' = DoReturn([cd EXCEPT
                    !.err = NewRequestError(IF Streams(cd.fn, cd.stream)
                                            THEN "build HTTP request"
                                            ELSE "build request",
                                            "build failure")])
       ELSE cd' = [cd EXCEPT !.pc = "transport"]
    /\ UNCHANGED notCd

\* resp, err := c.client.Do(httpReq)
DoTransport ==
    /\ cd.pc = "transport"
    /\ IF cd.transport = "error"
       THEN cd' = DoReturn([cd EXCEPT
                    !.transportCalls = @ + 1,
                    !.err = NewTransportError(IF Streams(cd.fn, cd.stream)
                                              THEN "execute HTTP request"
                                              ELSE "execute request",
                                              "transport failure")])
       ELSE IF ~Streams(cd.fn, cd.stream) /\ cd.autoBuffer
       THEN cd' = [cd EXCEPT !.transportCalls = @ + 1, !.pc = "read"]
       ELSE cd' = DoReturn([cd EXCEPT !.transportCalls = @ + 1,
                                      !.res = TransportResponse(cd.body)])
    /\ UNCHANGED notCd

\* data, err := io.ReadAll(resp.Body) and the return statement that follows
DoReadAll ==
    /\ cd.pc = "read"
    /\ LET got == ReadAll(cd.body) IN
       IF got.err # "none"
       THEN cd' = [cd EXCEPT !.pc = "defer", !.read = Len(got.data),
                             !.res = NoResponse,
                             !.err = NewResponseError("read response body", got.err)]
       ELSE cd' = [cd EXCEPT !.pc = "defer", !.read = Len(got.data),
                             !.res = BufferedBody(got.data),
                             !.err = NoClientError]
    /\ UNCHANGED notCd

\* deferred: resp.Body.Close(); a close error is reported if err == nil
DoDeferredClose ==
    /\ cd.pc = "defer"
    /\ cd' = DoReturn([cd EXCEPT
                !.closes = @ + 1,
                !.err = IF cd.body.close = "error" /\ cd.err = NoClientError
                        THEN NewResponseError("close response body", "close failure")
                        ELSE @])
    /\ UNCHANGED notCd

DoInit ==
    \E fn \in {"Do", "DoWithTimeout", "DoStream", "Execute"},
       autoBuffer \in BOOLEAN, stream \in BOOLEAN, timeout \in {0, 1},
       build \in Outcomes, transport \in Outcomes, body \in TransportBodies :
        /\ fn = "DoWithTimeout" => timeout = 1
        /\ cd = DoStart(fn, autoBuffer, stream, timeout, build, transport, body)

\* ------------------------------------------------------------------------
\* core.Request: the builder operations, Clone and BuildHTTPRequest
\* (core/request.go)
\* ------------------------------------------------------------------------
MaxSets == 2         \* builder operations applied to the requests

\* the source request and its clone; a map or a reader allocated by request
\* i lives at reference i, and reference 0 is nil
ReqIds == {1, 2}
Methods == {"GET", "HEAD", "POST"}
Urls == {"", "bad", "ok"}
HeaderKeys == {"X-Test", "Content-Type", "Transfer-Encoding"}
EmptyHeaders == [k \in HeaderKeys |-> ""]
NoReader == [data |-> << >>, off |-> 0]
NoBuilt == [id |-> 0, err |-> "none", body |-> 0, off |-> 0]

\* the clone before Clone has made it
NilRequest ==
    [method |-> "", url |-> "", headers |-> 0, queryParams |-> 0,
     body |-> 0, bodySize |-> 0, isMultipart |-> FALSE, buildErr |-> "none"]

\* NewRequest(method, urlStr): a request that fails url.ParseRequestURI
\* carries only the build error
NewRequest(method, urlStr) ==
    IF urlStr # "ok"
    THEN [method |-> "", url |-> "", headers |-> 0, queryParams |-> 0,
          body |-> 0, bodySize |-> 0, isMultipart |-> FALSE,
          buildErr |-> "invalid URL"]
    ELSE [method |-> method, url |-> urlStr, headers |-> 1, queryParams |-> 1,
          body |-> 0, bodySize |-> 0, isMultipart |-> FALSE,
          buildErr |-> "none"]

ReqStart(method, urlStr) ==
    [req |-> [i \in ReqIds |-> IF i = 1 THEN NewRequest(method, urlStr)
                                       ELSE NilRequest],
     cloned |-> FALSE,
     headers |-> [i \in ReqIds |-> EmptyHeaders],
     queryParams |-> [i \in ReqIds |-> << >>],
     readers |-> [i \in ReqIds |-> NoReader],
     sets |-> 0, panicked |-> FALSE, built |-> NoBuilt]

\* r.headers[key] = value, after make(map) when r.headers is nil
WithHeader(s, i, key, value) ==
    LET ref == IF s.req[i].headers = 0 THEN i ELSE s.req[i].headers
    IN  [s EXCEPT !.req[i].headers = ref, !.headers[ref][key] = value]

\* r.queryParams.Add(key, value): an assignment to an entry of the map,
\* which panics when the map is nil
WithQueryParam(s, i, value) ==
    IF s.req[i].queryParams = 0
    THEN [s EXCEPT !.panicked = TRUE]
    ELSE [s EXCEPT !.queryParams[s.req[i].queryParams] = Append(@, value)]

\* r.body = bytes.NewReader(data); r.bodySize = int64(len(data))
SetBody(s, i, data) ==
    [s EXCEPT !.req[i].body = i, !.req[i].bodySize = Len(data),
              !.readers[i] = [data |-> data, off |-> 0]]

\* the method check of WithBody
RejectsBodyNever(method) == FALSE
RejectsBody(method) == method \in {"GET", "HEAD"}

WithBody(s, i, data) ==
    IF RejectsBody(s.req[i].method)
    THEN [s EXCEPT !.req[i].buildErr = "method does not allow a body"]
    ELSE SetBody(s, i, data)

\* r.headers["Transfer-Encoding"] = "chunked", with no make(map)
WithChunkedEncoding(s, i) ==
    IF s.req[i].headers = 0
    THEN [s EXCEPT !.panicked = TRUE]
    ELSE [s EXCEPT !.headers[s.req[i].headers]["Transfer-Encoding"] = "chunked"]

\* WithJSONBody: json.Marshal fails or the body and Content-Type are set
WithJSONBody(s, i, marshal, data) ==
    IF marshal = "error"
    THEN [s EXCEPT !.req[i].buildErr = "marshal failure"]
    ELSE WithHeader(SetBody(s, i, data), i, "Content-Type", "application/json")

\* WithMultipartForm: writing a field or a file fails, or the body,
\* isMultipart and Content-Type are set
WithMultipartForm(s, i, write, data) ==
    IF write = "error"
    THEN [s EXCEPT !.req[i].buildErr = "multipart failure"]
    ELSE WithHeader([SetBody(s, i, data) EXCEPT !.req[i].isMultipart = TRUE],
                    i, "Content-Type", "multipart/form-data")

\* Clone: fresh maps filled from the source's, the body bytes read at
\* offset 0 into a fresh reader, and the source's reader reset to offset 0
CloneShared(s) ==
    [s EXCEPT !.req[2] = s.req[1], !.cloned = TRUE]
Clone(s) ==
    LET q == s.req[1]
    IN  [s EXCEPT
            !.cloned = TRUE,
            !.req[2] = [method |-> q.method, url |-> q.url, headers |-> 2,
                        queryParams |-> 2,
                        body |-> IF q.body = 0 THEN 0 ELSE 2,
                        bodySize |-> IF q.body = 0 THEN 0
                                     ELSE Len(s.readers[q.body].data),
                        isMultipart |-> q.isMultipart, buildErr |-> q.buildErr],
            !.headers[2] = IF q.headers = 0 THEN EmptyHeaders
                           ELSE s.headers[q.headers],
            !.queryParams[2] = IF q.queryParams = 0 THEN << >>
                               ELSE s.queryParams[q.queryParams],
            !.readers = IF q.body = 0 THEN @
                        ELSE [@ EXCEPT ![2] = [data |-> s.readers[q.body].data,
                                               off |-> 0],
                                       ![q.body].off = 0]]

\* BuildHTTPRequest: the recorded error, or the prepared request with the
\* query of the URL, the headers, r.body itself as the body and the
\* content length
BuildHTTPRequest(s, i) ==
    LET q == s.req[i]
        hs == IF q.headers = 0 THEN EmptyHeaders ELSE s.headers[q.headers]
        rd == IF q.body = 0 THEN NoReader ELSE s.readers[q.body]
    IN  IF q.buildErr # "none" THEN [err |-> q.buildErr]
        ELSE IF q.url = "" THEN [err |-> "request URL is empty"]
        ELSE [err |-> "none", method |-> q.method, url |-> q.url,
              query |-> IF q.queryParams = 0 THEN << >>
                        ELSE s.queryParams[q.queryParams],
              headers |-> hs, body |-> q.body, off |-> rd.off,
              bytes |-> SubSeq(rd.data, rd.off + 1, Len(rd.data)),
              ContentLength |->
                  IF hs["Transfer-Encoding"] = "chunked" THEN -1
                  ELSE IF q.bodySize > 0 THEN q.bodySize
                  ELSE Len(rd.data) - rd.off]

notRq == <<clientVars, retryVars, rlVars, sc, ag, sv, rb, cd, lg>>

\* a request that exists, in a goroutine that has not panicked
Exists(i) == (i = 1 \/ rq.cloned) /\ ~rq.panicked
CanSet(i) == Exists(i) /\ rq.sets < MaxSets
Counted(s) == [s EXCEPT !.sets = @ + 1]

ReqWithHeader(i) ==
    /\ CanSet(i)
    /\ rq' = Counted(WithHeader(rq, i, "X-Test", "a"))
    /\ UNCHANGED notRq

ReqWithQueryParam(i) ==
    /\ CanSet(i)
    /\ rq' = Counted(WithQueryParam(rq, i, "a"))
    /\ UNCHANGED notRq

ReqWithBody(i) ==
    /\ CanSet(i)
    /\ \E n \in {0, MaxBody} : rq' = Counted(WithBody(rq, i, Bytes(n)))
    /\ UNCHANGED notRq

ReqWithChunkedEncoding(i) ==
    /\ CanSet(i)
    /\ rq' = Counted(WithChunkedEncoding(rq, i))
    /\ UNCHANGED notRq

ReqWithJSONBody(i) ==
    /\ CanSet(i)
    /\ \E marshal \in Outcomes :
          rq' = Counted(WithJSONBody(rq, i, marshal, Bytes(1)))
    /\ UNCHANGED notRq

ReqWithMultipartForm(i) ==
    /\ CanSet(i)
    /\ \E write \in Outcomes :
          rq' = Counted(WithMultipartForm(rq, i, write, Bytes(MaxBody)))
    /\ UNCHANGED notRq

ReqClone ==
    /\ ~rq.cloned /\ ~rq.panicked
    /\ rq' = Clone(rq)
    /\ UNCHANGED notRq

\* a build; the caller keeps the prepared request
ReqBuild(i) ==
    /\ Exists(i)
    /\ LET b == BuildHTTPRequest(rq, i)
       IN  rq' = [rq EXCEPT !.built =
                     IF b.err # "none" THEN [NoBuilt EXCEPT !.id = i, !.err = b.err]
                     ELSE [id |-> i, err |-> "none", body |-> b.body, off |-> b.off]]
    /\ rq' # rq
    /\ UNCHANGED notRq

\* the transport reads one byte of the prepared request's body
ReqRead ==
    /\ rq.built.body # 0
    /\ rq.readers[rq.built.body].off < Len(rq.readers[rq.built.body].data)
    /\ rq' = [rq EXCEPT !.readers[rq.built.body].off = @ + 1]
    /\ UNCHANGED notRq

ReqInit ==
    \E method \in Methods, urlStr \in Urls : rq = ReqStart(method, urlStr)

\* ------------------------------------------------------------------------
\* Specifications
\* ------------------------------------------------------------------------
\* the components of the model other than the registry, the retry middleware
\* and the rate limiter, as constructed
RestIdle ==
    /\ sc = 0
    /\ ag = 0
    /\ sv = 0
    /\ rb = 0
    /\ cd = 0
    /\ rq = 0 /\ lg = 0

BaseIdle == ClientIdle /\ RetryIdle /\ RLIdle
Init == ClientInit /\ RetryIdle /\ RLIdle /\ RestIdle

Next ==
    \/ \E t \in Writers : Use(t)
    \/ \E t \in Writers : UpdateMiddleware(t)
    \/ \E t \in Writers : RemoveMiddleware(t)
    \/ \E t \in Writers : RegistryRead(t)
    \/ \E t \in Writers : RegistryWrite(t)
    \/ \E t \in Writers : SetClientTransport(t)
    \/ \E t \in Writers : MuUnlock(t)
    \/ \E c \in Callers : ClientDo(c)
    \/ \E c \in Callers : wrapTransportRLock(c)
    \/ \E c \in Callers : wrapTransportMake(c)
    \/ \E c \in Callers : wrapTransportCopy(c)
    \/ \E c \in Callers : wrapTransportRUnlock(c)
    \/ \E c \in Callers : wrapTransportChain(c)
    \/ \E c \in Callers : MiddlewarePre(c)
    \/ \E c \in Callers : TransportRoundTrip(c)
    \/ \E c \in Callers : MiddlewarePost(c)
    \/ \E c \in Callers : ClientDoReturn(c)

Spec == Init /\ [][Next]_vars

\* concurrent Use calls only
UseInit == ClientInit /\ RetryIdle /\ RLIdle /\ RestIdle

UseNext ==
    \/ \E t \in Writers : ConcurrentUse(t)
    \/ \E t \in Writers : RegistryRead(t)
    \/ \E t \in Writers : RegistryWrite(t)
    \/ \E t \in Writers : SetClientTransport(t)
    \/ \E t \in Writers : MuUnlock(t)

UseSpec == UseInit /\ [][UseNext]_vars

\* one call through the retry middleware
RetrySpecInit == ClientIdle /\ RetryInit /\ RLIdle /\ RestIdle

RetryNext ==
    \/ RetryEnter
    \/ RetryAttempt
    \/ InnerFails
    \/ InnerResponds
    \/ RetryBreak
    \/ RetryAgain
    \/ RetryDelayCancelled
    \/ RetryDelayElapsed
    \/ CtxCancel

RetrySpec == RetrySpecInit /\ [][RetryNext]_vars

\* calls through one rate limiter
RateLimitInit == ClientIdle /\ RetryIdle /\ RLInit /\ RestIdle

RateLimitNext ==
    \/ \E c \in RLCallers : RLLock(c)
    \/ \E c \in RLCallers : RLCheck(c)
    \/ \E c \in RLCallers : RLWaitCancelled(c)
    \/ \E c \in RLCallers : RLTimerFired(c)
    \/ \E c \in RLCallers : RLRelock(c)
    \/ \E c \in RLCallers : RLAfterWait(c)
    \/ \E c \in RLCallers : RLInner(c)
    \/ \E c \in RLCallers : RLCtxCancel(c)
    \/ Tick

RateLimitSpec == RateLimitInit /\ [][RateLimitNext]_vars


\* one call of StreamChunksWithContext
StreamSpecInit ==
    /\ BaseIdle /\ StreamInit
    /\ ag = 0 /\ sv = 0 /\ rb = 0 /\ cd = 0 /\ rq = 0 /\ lg = 0

StreamNext ==
    \/ StreamSpawn
    \/ StreamReaderRead
    \/ StreamReaderSend
    \/ StreamSelectDone
    \/ StreamSelectRead
    \/ StreamCtxCancel

StreamSpec == StreamSpecInit /\ [][StreamNext]_vars

\* a group operation over NumTasks requests
AsyncSpecInit ==
    /\ BaseIdle /\ AsyncInit
    /\ sc = 0 /\ sv = 0 /\ rb = 0 /\ cd = 0 /\ rq = 0 /\ lg = 0

AsyncNext ==
    \/ \E i \in Tasks : AsyncDoReturns(i)
    \/ \E i \in Tasks : AsyncDoPanics(i)
    \/ \E i \in Tasks : AsyncClose(i)
    \/ AggStart
    \/ \E i \in Tasks : SlotRecv(i)
    \/ \E i \in Tasks : SlotCtxDone(i)
    \/ \E i \in Tasks : SlotCleanup(i)
    \/ AggWait
    \/ AggSend
    \/ AggClose
    \/ AggDefer
    \/ AsyncParentCancel

AsyncSpec == AsyncSpecInit /\ [][AsyncNext]_vars

\* the same, with the scheduler running every goroutine that can take a
\* step; whether c.Do returns and whether a token is cancelled is left to
\* the environment
AsyncFairness ==
    /\ \A i \in Tasks : WF_vars(AsyncClose(i))
    /\ \A i \in Tasks : WF_vars(SlotRecv(i))
    /\ \A i \in Tasks : WF_vars(SlotCtxDone(i))
    /\ \A i \in Tasks : WF_vars(SlotCleanup(i))
    /\ WF_vars(AggStart)
    /\ WF_vars(AggWait)
    /\ WF_vars(AggSend)
    /\ WF_vars(AggClose)
    /\ WF_vars(AggDefer)

AsyncLiveSpec == AsyncSpecInit /\ [][AsyncNext]_vars /\ AsyncFairness

\* one round trip through the size validation middleware
SizeSpecInit ==
    /\ BaseIdle /\ SizeInit
    /\ sc = 0 /\ ag = 0 /\ rb = 0 /\ cd = 0 /\ rq = 0 /\ lg = 0

SizeNext ==
    \/ SizeCheckRequest
    \/ SizeInnerFails
    \/ SizeInnerResponds
    \/ SizeCheckResponse

SizeSpec == SizeSpecInit /\ [][SizeNext]_vars

\* one helper call on a response
RespSpecInit ==
    /\ BaseIdle /\ RespInit
    /\ sc = 0 /\ ag = 0 /\ sv = 0 /\ cd = 0 /\ rq = 0 /\ lg = 0

RespNext ==
    \/ RespWork
    \/ RespDeferredClose
    \/ RespCloseBody

RespSpec == RespSpecInit /\ [][RespNext]_vars

\* one call of Do, DoStream or Execute
DoSpecInit ==
    /\ BaseIdle /\ DoInit
    /\ sc = 0 /\ ag = 0 /\ sv = 0 /\ rb = 0 /\ rq = 0 /\ lg = 0

DoNext ==
    \/ DoBuild
    \/ DoTransport
    \/ DoReadAll
    \/ DoDeferredClose

DoSpec == DoSpecInit /\ [][DoNext]_vars

\* the builder operations, Clone, builds and reads of one request
ReqSpecInit ==
    /\ BaseIdle /\ ReqInit
    /\ sc = 0 /\ ag = 0 /\ sv = 0 /\ rb = 0 /\ cd = 0 /\ lg = 0

ReqNext ==
    \/ \E i \in ReqIds : ReqWithHeader(i)
    \/ \E i \in ReqIds : ReqWithQueryParam(i)
    \/ \E i \in ReqIds : ReqWithBody(i)
    \/ \E i \in ReqIds : ReqWithChunkedEncoding(i)
    \/ \E i \in ReqIds : ReqWithJSONBody(i)
    \/ \E i \in ReqIds : ReqWithMultipartForm(i)
    \/ ReqClone
    \/ \E i \in ReqIds : ReqBuild(i)
    \/ ReqRead

ReqSpec == ReqSpecInit /\ [][ReqNext]_vars

\* snapshots taken with GetMiddlewares and mutated, while calls run
SnapshotSpecInit == ClientInit /\ RetryIdle /\ RLIdle /\ RestIdle

SnapshotNext ==
    \/ \E t \in Writers : GetMiddlewares(t)
    \/ \E t \in Writers : GetMiddlewaresReturn(t)
    \/ \E t \in Writers : SnapshotMutate(t)
    \/ \E c \in Callers : ClientDo(c)
    \/ \E c \in Callers : wrapTransportRLock(c)
    \/ \E c \in Callers : wrapTransportMake(c)
    \/ \E c \in Callers : wrapTransportCopy(c)
    \/ \E c \in Callers : wrapTransportRUnlock(c)
    \/ \E c \in Callers : wrapTransportChain(c)
    \/ \E c \in Callers : MiddlewarePre(c)
    \/ \E c \in Callers : TransportRoundTrip(c)
    \/ \E c \in Callers : MiddlewarePost(c)
    \/ \E c \in Callers : ClientDoReturn(c)

SnapshotSpec == SnapshotSpecInit /\ [][SnapshotNext]_vars

\* ------------------------------------------------------------------------
\* Properties
\* ------------------------------------------------------------------------
IsPrefix(s, t) == Len(s) <= Len(t) /\ \A i \in 1..Len(s) : s[i] = t[i]

\* The events of a round trip through the list mws: each middleware's
\* request-side code in list order, each seeing the header as left by the
\* ones before it, then the transport, then the returns in reverse order.
ExpectedTrace(mws) ==
    LET n == Len(mws)
        names == NamesOf(mws)
    IN  [i \in 1..(2 * n + 1) |->
            IF i <= n THEN Event("pre", mws[i], SubSeq(names, 1, i - 1))
            ELSE IF i = n + 1 THEN Event("transport", NilMw, names)
            ELSE Event("post", mws[2 * n + 2 - i], names)]

Running == {"down", "up", "done"}

\* C1: a call through the chain composed from the list mws runs the
\* request-side code of m1..mn in that order (each observing the header
\* effects of all earlier ones), then the transport (observing all of them),
\* then the response-side code in the order mn..m1.
ChainOrder ==
    \A c \in Callers :
        call[c].pc \in Running =>
            /\ IsPrefix(call[c].trace, ExpectedTrace(call[c].snap))
            /\ call[c].pc = "done" => call[c].trace = ExpectedTrace(call[c].snap)

ChainOrderWitness ==
    \E c \in Callers :
        /\ call[c].pc = "done"
        /\ Len(call[c].snap) >= 2
        /\ call[c].snap[1].name # call[c].snap[2].name

\* C2: a call that has taken its snapshot runs exactly the registry as it
\* was when the snapshot was taken, in registration order, whatever Use,
\* UpdateMiddleware or RemoveMiddleware do to the registry meanwhile.
SnapshotIsolation ==
    \A c \in Callers :
        /\ call[c].pc # "panic"
        /\ call[c].pc \in {"compose"} \cup Running => call[c].snap = call[c].regAt
        /\ call[c].pc \in Running =>
            /\ call[c].chain = call[c].regAt
            /\ IsPrefix(call[c].trace, ExpectedTrace(call[c].regAt))
            /\ call[c].pc = "done" => call[c].trace = ExpectedTrace(call[c].regAt)

SnapshotIsolationWitness ==
    \E c \in Callers :
        /\ call[c].pc = "done"
        /\ Len(call[c].regAt) >= 2
        /\ middlewares # call[c].regAt
        /\ nops >= 1

\* C3: every Use that has stored its append is retained: the registry is
\* the constructed registry followed by the used middlewares, so its length
\* is the prior length plus the number of Use calls.
UsesRetained ==
    /\ Len(middlewares) = Len(reg0) + Len(used)
    /\ middlewares = reg0 \o used

UsesRetainedWitness ==
    /\ \A t \in Writers : w[t].pc = "idle"
    /\ Len(used) = NumWriters
    /\ \E i, j \in 1..Len(used) : used[i].ver # used[j].ver

K == rin.strategy.maxAttempts
Calls == inner.calls
AllNetFailures == \A i \in 1..Len(Calls) : Calls[i].out \in NetErrors

Exhausted ==
    /\ Len(Calls) = K + 1
    /\ ret.resp = 0
    /\ ret.err.kind = "RetryError"
    /\ ret.err.attempts = K + 1
    /\ ret.err.cause = Calls[Len(Calls)].out

\* C4 as stated: whenever inner fails every time with a retryable network
\* error and the token is never cancelled, inner is invoked MaxAttempts + 1
\* times and RetryError{Attempts = MaxAttempts + 1} wraps the last error.
RetryExhaustionAsStated ==
    (ret.done /\ ctx = "none" /\ AllNetFailures) => Exhausted

\* C4: the same, for MaxAttempts >= 0 and a request body that was copied
\* into the replay buffer without a read error.
RetryExhaustion ==
    (ret.done /\ ctx = "none" /\ AllNetFailures
        /\ K >= 0 /\ rin.body.kind # "error") => Exhausted

RetryExhaustionWitness ==
    /\ ret.done /\ ctx = "none" /\ AllNetFailures
    /\ K >= 2
    /\ rin.body.kind = "bytes"
    /\ ret.err.attempts = K + 1

\* the first attempts fail with a network error, the last one answers 200
FailsThenSucceeds ==
    /\ Len(Calls) >= 1
    /\ \A i \in 1..(Len(Calls) - 1) : Calls[i].out \in NetErrors
    /\ Calls[Len(Calls)].out = "response"
    /\ Len(Calls) - 1 <= K
    /\ Len(resps) = 1
    /\ resps[1].status = 200

\* C5: when inner fails k times with a network error and then succeeds,
\* every attempt was handed a body reading the original bytes from offset
\* zero, and the successful response is returned with a nil error.
RetryReplay ==
    (ret.done /\ FailsThenSucceeds) =>
        /\ \A i \in 1..Len(Calls) :
            /\ Calls[i].hasBody = (rin.body.kind # "nil")
            /\ Calls[i].body = rin.body.data
        /\ ret.err = NoErr
        /\ ret.resp = 1

RetryReplayWitness ==
    /\ ret.done /\ FailsThenSucceeds
    /\ Len(Calls) >= 3
    /\ rin.body.kind = "bytes"
    /\ Calls[1].read = 1
    /\ Calls[2].read = Len(rin.body.data)

\* C6 as stated: entered with a cancelled token, roundTrip never invokes
\* inner and returns the token's error with a nil response.
PreCancelledAsStated ==
    (ret.done /\ r.enteredCancelled) =>
        /\ Len(Calls) = 0
        /\ ret.resp = 0
        /\ ret.err = CtxError(ctx)

\* C6: entered with a cancelled token, roundTrip never invokes inner and
\* returns a nil response; the error is the token's error, unless copying
\* the request body failed, which returns the copy error.
PreCancelled ==
    (ret.done /\ r.enteredCancelled) =>
        /\ Len(Calls) = 0
        /\ ret.resp = 0
        /\ ret.err = IF rin.body.kind = "error" THEN CopyError ELSE CtxError(ctx)

PreCancelledWitness ==
    /\ ret.done /\ r.enteredCancelled
    /\ rin.body.kind = "bytes"
    /\ K >= 1
    /\ ret.err.kind = "ctx"

\* C7: attempts never overlap; the first attempt carries the header as the
\* caller left it, and the n-th retry carries X-Retry-Attempt = n.
RetrySerialHeaders ==
    /\ inner.inflight <= 1
    /\ \A i \in 1..Len(Calls) :
        /\ Calls[i].busy = 0
        /\ Calls[i].hdr = IF i = 1 THEN rin.hdr0 ELSE i - 1

RetrySerialHeadersWitness ==
    /\ ret.done
    /\ Len(Calls) >= 3
    /\ rin.hdr0 = -1
    /\ Calls[1].hdr = -1 /\ Calls[2].hdr = 1 /\ Calls[3].hdr = 2

\* response j belongs to an attempt that the middleware has moved past
Intermediate(j) ==
    \/ j # r.resp
    \/ r.pc \in {"wait", "top", "inner"}
    \/ r.pc = "done" /\ ret.resp # j

\* C8: a response of an attempt that is followed by another attempt or by
\* a cancellation exit has had its body drained and closed exactly once
\* before anything else happens, and is not the response returned; at most
\* one response is returned, and only with a nil error.
IntermediateReleased ==
    /\ ret.resp \in 0..Len(resps)
    /\ ret.resp # 0 => ret.err = NoErr
    /\ \A j \in 1..Len(resps) :
        Intermediate(j) =>
            /\ ret.resp # j
            /\ ~resps[j].bodyNil => resps[j].drained /\ resps[j].closes = 1
            /\ resps[j].bodyNil => resps[j].closes = 0

IntermediateReleasedWitness ==
    /\ ret.done
    /\ Len(resps) >= 3
    /\ ret.resp = Len(resps)
    /\ ~resps[1].bodyNil /\ resps[1].closes = 1
    /\ ~resps[2].bodyNil /\ resps[2].closes = 1

Log == rlLog.calls
Admitted == {i \in 1..Len(Log) : Log[i].out = "admit"}
Elapsed(i) == Log[i].t * opts.RequestsPerSecond

\* C9: without waiting and with a burst B >= 1, the first B calls made at
\* the limiter's creation time are admitted, a (B+1)-th at that time fails
\* with RateLimitExceeded{Limit = R} and never reaches inner, and when the
\* next call comes once 1/R (and less than 2/R) seconds have passed it is
\* admitted while a further call at that same time fails.
Bursting ==
    (~opts.WaitOnLimit /\ opts.Burst >= 1) =>
        LET B == opts.Burst IN
        /\ \A i \in 1..Len(Log) :
            (i <= B /\ Log[i].t = 0) => Log[i].out = "admit"
        /\ (Len(Log) >= B + 1 /\ Log[B + 1].t = 0) =>
            /\ Log[B + 1].out = "exceeded"
            /\ Log[B + 1].limit = opts.RequestsPerSecond
        /\ (Len(Log) >= B + 2 /\ Log[B + 1].t = 0
                /\ Elapsed(B + 2) >= OneToken /\ Elapsed(B + 2) < 2 * OneToken) =>
            /\ Log[B + 2].out = "admit"
            /\ (Len(Log) >= B + 3 /\ Log[B + 3].t = Log[B + 2].t) =>
                    Log[B + 3].out = "exceeded"
        /\ rlLog.inner <= Cardinality(Admitted)

BurstingWitness ==
    LET B == opts.Burst IN
    /\ ~opts.WaitOnLimit /\ B >= 1
    /\ Len(Log) = B + 3
    /\ Log[B + 1].t = 0 /\ Log[B + 1].out = "exceeded"
    /\ Elapsed(B + 2) = OneToken /\ Log[B + 2].out = "admit"
    /\ Log[B + 3].t = Log[B + 2].t /\ Log[B + 3].out = "exceeded"
    /\ rlLog.inner = B + 1

\* the step of caller c that leaves the critical section entered at line 393
LeavesCheck(c) == rl[c].pc = "locked" /\ rl'[c].pc # "locked"
MustWaitTooLong ==
    LET tok == Refill(tokens, lastTimestamp, now, opts) IN
    /\ opts.WaitOnLimit
    /\ tok < OneToken
    /\ WaitTime(tok, opts) > opts.MaxWaitTime

\* C10: with wait_on_limit, a call that finds less than one token and a
\* wait longer than max_wait fails with RateLimitExceeded in that very step:
\* it never waits, inner is not invoked, and the lock is free again.
WaitCap ==
    [][\A c \in RLCallers :
        (LeavesCheck(c) /\ MustWaitTooLong) =>
            /\ rl'[c].pc = "idle"
            /\ ~rl'[c].waited
            /\ rlMu' = 0
            /\ rlLog'.inner = rlLog.inner
            /\ rlLog'.calls[Len(rlLog'.calls)].out = "exceeded"
            /\ rlLog'.calls[Len(rlLog'.calls)].retryAfter > opts.MaxWaitTime]_vars

WaitCapWitness ==
    /\ opts.WaitOnLimit
    /\ rlMu = 0
    /\ \E i \in 1..Len(Log) :
        /\ Log[i].out = "exceeded"
        /\ Log[i].before < OneToken
        /\ Log[i].retryAfter > opts.MaxWaitTime
    /\ \E i \in 1..Len(Log) : Log[i].out = "wait"

\* C11: if the token passed to StreamChunksWithContext is already cancelled
\* on entry, the callback is never invoked and the function returns the
\* token's cancellation error.
StreamPreCancelled ==
    sc.enteredCancelled =>
        /\ sc.callbacks = 0
        /\ sc.pc = "done" => sc.ret = sc.ctx

\* C12: the channel returned by DoAsync, DoStreamAsync or ExecuteAsync
\* carries exactly one AsyncResponse and is then closed, on every path; if
\* the transport or a middleware panics, that one result has a panic-tagged
\* error and no response, and the channel still closes.  A task that has
\* left c.Do, by return or by panic, has delivered its one result and has
\* closed the channel or is about to.
SingleShot(i) ==
    LET ch == ag.ch[i] IN
    /\ Len(ch.sent) <= 1
    /\ ch.closed => Len(ch.sent) = 1
    /\ ag.task[i] # "run" =>
            /\ Len(ch.sent) = 1
            /\ ch.closed \/ ENABLED AsyncClose(i)
    /\ (ag.panicked[i] /\ Len(ch.sent) = 1) =>
            /\ ch.sent[1].err = "panic occurred"
            /\ ~ch.sent[1].resp

AsyncSingleShot == \A i \in Tasks : SingleShot(i)

AsyncSingleShotWitness ==
    \E i, j \in Tasks :
        /\ ag.panicked[i] /\ ag.ch[i].closed
        /\ ag.ch[i].sent = <<PanicResult(i)>>
        /\ ~ag.panicked[j] /\ ag.ch[j].closed
        /\ ag.ch[j].sent = <<AsyncResponse(j, TRUE, "none")>>

\* C13: a group operation delivers exactly one result vector, as long as
\* the input, whose slot i holds the outcome of input i whatever the order
\* in which the tasks complete, and then closes the output channel.
SlotOutcome(v, i) ==
    \/ ag.how[i] = "recv" /\ ag.ch[i].sent = <<v>> /\ v.task = i
    \/ ag.how[i] = "ctx" /\ ag.ctx # "none" /\ v = CtxResult(ag.ctx)

GroupVector ==
    /\ Len(ag.out.sent) <= 1
    /\ ag.out.closed => Len(ag.out.sent) = 1
    /\ ag.apc = "done" => ag.out.closed
    /\ Len(ag.out.sent) = 1 =>
            /\ Len(ag.out.sent[1]) = NumTasks
            /\ \A i \in Tasks : SlotOutcome(ag.out.sent[1][i], i)

GroupVectorWitness ==
    /\ ag.out.closed
    /\ ag.reordered
    /\ \A i \in Tasks : ag.how[i] = "recv"
    /\ \E i \in Tasks : ag.out.sent[1][i].resp

\* C14: the vector is emitted only after every slot has received its task's
\* result or observed the parent token's cancellation; a slot filled on
\* cancellation holds the parent token's error and no response; and once
\* every task has yielded a result or the parent token is cancelled, the
\* vector is eventually emitted and the output channel closed.
SlotsFilled ==
    \A i \in Tasks :
        /\ ag.slot[i] = "done"
        /\ ag.how[i] = "ctx" =>
                /\ ag.out.sent[1][i].err = ag.ctx /\ ag.ctx # "none"
                /\ ~ag.out.sent[1][i].resp
        /\ ag.how[i] = "recv" => ag.out.sent[1][i] = ag.ch[i].sent[1]

AllYieldedOrCancelled ==
    \/ \A i \in Tasks : Len(ag.ch[i].sent) = 1
    \/ ag.ctx # "none"

GroupCompletion ==
    /\ [](Len(ag.out.sent) >= 1 => SlotsFilled)
    /\ AllYieldedOrCancelled ~> (Len(ag.out.sent) = 1 /\ ag.out.closed)

GroupCompletionWitness ==
    /\ ag.out.closed
    /\ \E i \in Tasks : ag.how[i] = "ctx" /\ ag.task[i] = "run"
    /\ \E i \in Tasks : ag.how[i] = "recv"

\* C15: with an individual timeout, the cancel function of every
\* per-request sub-token has been called before the output channel is closed.
SubTokensReleased ==
    (ag.timeout > 0 /\ ag.out.closed) => \A i \in Tasks : ag.cancels[i] >= 1

SubTokensReleasedWitness ==
    /\ ag.timeout > 0 /\ ag.out.closed
    /\ \E i \in Tasks : ag.how[i] = "ctx"
    /\ \E i \in Tasks : ag.how[i] = "recv"
    /\ \A i \in Tasks : ag.cancels[i] = 1

\* C16: with max_request > 0 and a request body whose declared content
\* length exceeds max_request, the size middleware fails with
\* SizeError{Type = request, Current = declared length, Max = max_request}
\* and inner is never invoked; when max_request is greater than the declared
\* length, the request is passed to inner.
MaxRequest == sv.config.MaxRequestBodySize

SizeRequestLimit ==
    /\ (sv.req.hasBody /\ MaxRequest > 0 /\ sv.req.ContentLength > MaxRequest
            /\ sv.pc # "request") =>
            /\ sv.pc = "done"
            /\ sv.ret = [resp |-> FALSE,
                         err |-> SizeError("request", sv.req.ContentLength, MaxRequest)]
            /\ sv.innerCalls = 0
    /\ (MaxRequest > sv.req.ContentLength /\ sv.pc # "request") =>
            /\ sv.pc = "inner" \/ sv.innerCalls = 1
            /\ sv.ret.err.Type # "request"

SizeRequestLimitWitness ==
    /\ sv.pc = "done"
    /\ sv.req.hasBody /\ MaxRequest > 0 /\ sv.req.ContentLength = MaxRequest + 1
    /\ sv.ret.err = SizeError("request", MaxRequest + 1, MaxRequest)

\* C17: when inner returns a response with a body and a response limit
\* applies (max_response if it is > 0, otherwise max_stream; none when both
\* are zero), a declared content length greater than the limit makes the
\* size middleware close the body, return a nil response and fail with a
\* SizeError of kind "response".
ClaimedResponseMax ==
    IF sv.config.MaxResponseBodySize > 0 THEN sv.config.MaxResponseBodySize
    ELSE sv.config.MaxStreamSize

SizeResponseLimit ==
    (sv.pc = "done" /\ sv.inner = "response" /\ sv.resp.hasBody) =>
        IF ClaimedResponseMax > 0
        THEN sv.resp.ContentLength > ClaimedResponseMax =>
                /\ sv.closes = 1
                /\ ~sv.ret.resp
                /\ sv.ret.err.kind = "SizeError"
                /\ sv.ret.err.Type = "response"
        ELSE sv.closes = 0 /\ sv.ret.resp /\ sv.respGuard = NoGuard

SizeResponseLimitWitness ==
    /\ sv.pc = "done" /\ sv.inner = "response" /\ sv.resp.hasBody
    /\ sv.config.MaxResponseBodySize = 0 /\ sv.config.MaxStreamSize > 0
    /\ sv.resp.ContentLength > sv.config.MaxStreamSize
    /\ sv.closes = 1 /\ sv.ret.err.Type = "response"

\* C18: after Bytes, String, JSON, XML, SaveToFile or Process returns, with
\* or without an error, on a response that has a body, the body's Close has
\* been called exactly once.
ResponseReleased ==
    /\ (rb.pc = "done" /\ rb.body.present) => rb.body.closes = 1
    /\ rb.pc \in {"call", "defer"} => rb.body.closes = 0

ResponseReleasedWitness ==
    /\ rb.pc = "done" /\ rb.method = "SaveToFile"
    /\ rb.err = "failed to create file"
    /\ ~rb.body.consumed /\ rb.body.closes = 1

\* C19: with auto_buffer enabled and stream not requested, Do/Execute reads
\* the whole transport body into memory and closes the original body exactly
\* once on every path, a read failure included, and the response returned
\* has an in-memory body delivering the same bytes; with stream requested
\* the response is returned with its body unread and unclosed.
GotResponse == cd.pc = "done" /\ cd.transportCalls = 1 /\ cd.transport = "ok"

AutoBuffering ==
    /\ (GotResponse /\ cd.autoBuffer /\ cd.fn # "DoStream" /\ ~cd.stream) =>
            /\ cd.closes = 1
            /\ ReadAll(cd.body).err = "none" =>
                    /\ cd.read = Len(cd.body.data)
                    /\ cd.res.kind = "memory"
                    /\ cd.res.data = cd.body.data
    /\ (GotResponse /\ (cd.fn = "DoStream" \/ cd.stream)) =>
            /\ cd.res.kind = "transport"
            /\ cd.read = 0 /\ cd.closes = 0

AutoBufferingWitness ==
    /\ GotResponse /\ cd.autoBuffer /\ cd.fn = "Do"
    /\ cd.res = [kind |-> "memory", data |-> Bytes(MaxBody)]
    /\ cd.closes = 1

\* C20: Do, DoStream and Execute tag every error with its phase: a build
\* failure gives phase "request" and the transport is never invoked, a
\* transport failure gives phase "transport", a failure reading or closing
\* the body while auto-buffering gives phase "response"; unwrapping the
\* error returns the underlying cause.
ReadOrCloseFailed ==
    /\ cd.closes = 1
    /\ ReadAll(cd.body).err # "none" \/ cd.body.close = "error"

ErrorPhases ==
    cd.pc = "done" =>
        /\ cd.build = "error" =>
                /\ cd.err.Phase = "request" /\ Unwrap(cd.err) = "build failure"
                /\ cd.transportCalls = 0
        /\ (cd.build = "ok" /\ cd.transport = "error") =>
                /\ cd.err.Phase = "transport"
                /\ Unwrap(cd.err) = "transport failure"
        /\ (cd.build = "ok" /\ cd.transport = "ok" /\ ReadOrCloseFailed) =>
                /\ cd.err.Phase = "response"
                /\ Unwrap(cd.err) = IF ReadAll(cd.body).err # "none"
                                    THEN "read failure" ELSE "close failure"
        /\ (cd.build = "ok" /\ cd.transport = "ok" /\ ~ReadOrCloseFailed) =>
                cd.err = NoClientError

ErrorPhasesWitness ==
    /\ cd.pc = "done" /\ cd.fn = "Execute"
    /\ cd.err = NewResponseError("close response body", "close failure")
    /\ cd.closes = 1 /\ cd.read = MaxBody

\* C21: for a request whose method is GET or HEAD every body-setting
\* operation (WithBody, WithJSONBody, WithMultipartForm) records a build
\* error, so no prepared GET or HEAD request carries a body.
BodylessGetHead ==
    (rq.built.id # 0 /\ rq.built.err = "none"
        /\ rq.req[rq.built.id].method \in {"GET", "HEAD"})
    => rq.built.body = 0

\* the headers and query parameters a request holds
Metadata(s, i) ==
    <<IF s.req[i].headers = 0 THEN EmptyHeaders ELSE s.headers[s.req[i].headers],
      IF s.req[i].queryParams = 0 THEN << >>
      ELSE s.queryParams[s.req[i].queryParams]>>

\* two builds fail alike or prepare the same method, URL with query,
\* headers and body bytes
SameBuild(a, b) ==
    /\ a.err = b.err
    /\ a.err = "none" =>
        /\ a.method = b.method
        /\ a.url = b.url /\ a.query = b.query
        /\ a.headers = b.headers
        /\ a.bytes = b.bytes

BuilderOn(i) ==
    \/ ReqWithHeader(i) \/ ReqWithQueryParam(i) \/ ReqWithBody(i)
    \/ ReqWithChunkedEncoding(i) \/ ReqWithJSONBody(i) \/ ReqWithMultipartForm(i)

\* C22: the build of a fresh clone equals the build of its source in method,
\* URL with query, headers and body bytes, and a builder operation on the
\* clone leaves the source's headers and query parameters unchanged, as one
\* on the source leaves the clone's.
CloneIndependent ==
    [][/\ ReqClone =>
            SameBuild(BuildHTTPRequest(rq', 1), BuildHTTPRequest(rq', 2))
       /\ \A i \in ReqIds :
            (rq.cloned /\ BuilderOn(i)) =>
                Metadata(rq', 3 - i) = Metadata(rq, 3 - i)]_vars

CloneIndependentWitness ==
    /\ rq.cloned
    /\ rq.req[1].body # 0 /\ rq.req[2].body # 0
    /\ BuildHTTPRequest(rq, 2).err = "none"
    /\ Metadata(rq, 1)[1]["X-Test"] = ""
    /\ Metadata(rq, 2)[1]["X-Test"] = "a"

\* C23: UpdateMiddleware(m) replaces the registered middleware of the same
\* name at its position, keeping the length and every other entry, and
\* otherwise appends m at the end, growing the registry by one.
UpdateInPlace ==
    [][\A t \in Writers :
        (RegistryWrite(t) /\ w[t].op.kind = "update") =>
            LET m == w[t].op.mw
                old == middlewares
                new == middlewares'
            IN  IF \E i \in 1..Len(old) : old[i].name = m.name
                THEN /\ Len(new) = Len(old)
                     /\ \E i \in 1..Len(old) :
                          /\ old[i].name = m.name
                          /\ new[i] = m
                          /\ \A j \in 1..Len(old) : j # i => new[j] = old[j]
                ELSE new = Append(old, m)]_vars

UpdateInPlaceWitness ==
    \E t \in Writers :
        /\ w[t].pc = "setT" /\ w[t].op.kind = "update"
        /\ Len(reg0) = 2 /\ reg0[1].name = w[t].op.mw.name
        /\ middlewares = [reg0 EXCEPT ![1] = w[t].op.mw]
        /\ middlewares # reg0

\* C24: mutating the slice returned by GetMiddlewares (overwriting,
\* truncating, appending) never changes the client's registry, the chain
\* used by later calls, or any later snapshot.
SnapshotDefensive ==
    /\ middlewares = reg0
    /\ \A c \in Callers :
        call[c].pc \in Running =>
            call[c].chain = ChainMiddlewares(final, reg0)
    /\ \A t \in Writers : w[t].pc \in {"get", "got"} => w[t].local.elems = reg0

SnapshotDefensiveWitness ==
    /\ Len(reg0) = 2
    /\ \E t, u \in Writers :
        /\ w[t].pc = "mutated" /\ Len(w[t].local.elems) = 2
        /\ w[t].local.elems # reg0
        /\ w[u].pc = "got" /\ w[u].local.after = 1
    /\ \E c \in Callers : call[c].pc = "done"

PostWaitTokens ==
    [][\A c \in RLCallers :
        RLAfterWait(c) => tokens' = 0 /\ lastTimestamp' = now]_vars

\* C27: the limiter's lock is not held while inner runs or while a call
\* waits, every path out of a critical section releases it (admission,
\* RateLimitExceeded, the start of a wait, admission after a wait), and the
\* holder can always take the step that releases it, so no caller blocks on
\* the lock for ever.
InCritical(c) == rl[c].pc \in {"locked", "relocked"}

LockNeverAcrossIO ==
    /\ \A c \in RLCallers : rlMu = c <=> InCritical(c)
    /\ \A c \in RLCallers :
        rlMu = c => ENABLED (RLCheck(c) \/ RLAfterWait(c))

LockNeverAcrossIOWitness ==
    \E c, d \in RLCallers :
        /\ rl[c].pc = "wait"
        /\ rl[d].pc = "locked" /\ rlMu = d
        /\ rlLog.inner >= 1
        /\ \E i \in 1..Len(Log) : Log[i].out = "exceeded"

\* C28: with wait_on_limit, the number of calls admitted to inner up to any
\* time never exceeds max(burst, 1) + rate x (time since the limiter was
\* created), however many callers wait at once.
ReachedInner == rlLog.inner + Cardinality({c \in RLCallers : rl[c].pc = "inner"})

WaitersBound ==
    opts.WaitOnLimit =>
        ReachedInner * OneToken <= MaxTokens(opts) + opts.RequestsPerSecond * now

RetryWaitCancel ==
    [][r.cancelledInWait =>
        /\ inner' = inner
        /\ r.pc \in {"wait", "top"}
        /\ r'.pc \in {"top", "done"}
        /\ r'.pc = "done" =>
            /\ ret'.done /\ ret'.resp = 0
            /\ ret'.err = CtxError(ctx)]_vars

RetryWaitCancelWitness ==
    /\ r.cancelledInWait /\ r.pc = "done"
    /\ ret.done /\ ret.resp = 0 /\ ret.err.kind = "ctx"
    /\ Len(Calls) = 2 /\ K = 2

\* C31: when inner returns an error that is no network error, the supplied
\* strategies do not retry: inner is invoked exactly once and roundTrip
\* returns, with a nil response, a RetryError with Attempts = 1 that wraps
\* the original error.
NoRetryOnOtherError ==
    (Len(Calls) >= 1 /\ Calls[1].out = "other") =>
        /\ Len(Calls) = 1
        /\ r.pc \in {"decide", "done"}
        /\ ret.done =>
            /\ ret.resp = 0
            /\ ret.err = Err("RetryError", 1, "other", "other")

NoRetryOnOtherErrorWitness ==
    /\ ret.done /\ K = 2
    /\ Len(Calls) = 1 /\ Calls[1].out = "other"
    /\ ret.err.kind = "RetryError" /\ ret.err.attempts = 1

\* the strategy retries the response of every attempt made
AllRetryableResponses ==
    /\ Len(Calls) >= 1
    /\ Len(resps) = Len(Calls)
    /\ \A i \in 1..Len(Calls) :
        /\ Calls[i].out = "response"
        /\ \/ resps[i].status \in rin.strategy.statuses
           \/ /\ rin.strategy.kind = "exponential"
              /\ resps[i].status = 429 /\ resps[i].retryAfter

LastResponseReturned ==
    /\ Len(Calls) = K + 1
    /\ ret.err = NoErr
    /\ ret.resp = Len(resps)
    /\ ~resps[ret.resp].drained /\ resps[ret.resp].closes = 0

\* C32 as stated: when every attempt returns a response with a retryable
\* status and MaxAttempts = k is exhausted, inner has been invoked k+1 times
\* and the last response is returned with a nil error, neither drained nor
\* closed.
StatusExhaustionAsStated ==
    (ret.done /\ ctx = "none" /\ AllRetryableResponses) => LastResponseReturned

\* C32: the same, for MaxAttempts >= 0.
StatusExhaustion ==
    (ret.done /\ ctx = "none" /\ AllRetryableResponses /\ K >= 0) =>
        LastResponseReturned

StatusExhaustionWitness ==
    /\ ret.done /\ ctx = "none" /\ AllRetryableResponses
    /\ K = 2 /\ Len(Calls) = 3
    /\ ret.resp = 3 /\ resps[1].closes = 1 /\ resps[3].closes = 0


\* ------------------------------------------------------------------------
\* sizeLimitedReader (middlewares/sizelimit.go): the counting guard the
\* middleware wraps around a request or response body
\* ------------------------------------------------------------------------
MaxReads == 3        \* Read calls made on one guarded body

EOFError == [kind |-> "EOF", Type |-> "", Current |-> 0, Max |-> 0]

\* newSizeLimitedReader(reader, maxSize, sizeType)
newSizeLimitedReader(maxSize, sizeType) ==
    [maxSize |-> maxSize, sizeType |-> sizeType, bytesRead |-> 0]

\* r.bytesRead > r.maxSize
OverLimitInclusive(bytesRead, maxSize) == bytesRead >= maxSize
OverLimit(bytesRead, maxSize) == bytesRead > maxSize

\* sizeLimitedReader.Read, given what r.reader.Read(p) returned
sizeLimitedRead(g, n, err) ==
    IF g.maxSize <= 0 THEN [guard |-> g, n |-> n, err |-> err]
    ELSE LET bytesRead == g.bytesRead + n IN
         [guard |-> [g EXCEPT !.bytesRead = bytesRead],
          n |-> n,
          err |-> IF OverLimit(bytesRead, g.maxSize)
                  THEN SizeError(g.sizeType, bytesRead, g.maxSize)
                  ELSE err]

\* a guarded body of len bytes; delivered counts the bytes handed to the
\* caller, crossedAt is the Read call at which they first exceeded the limit
GuardStart(maxSize, sizeType, len, fails) ==
    [pc |-> "reading", guard |-> newSizeLimitedReader(maxSize, sizeType),
     len |-> len, fails |-> fails, off |-> 0, reads |-> 0, delivered |-> 0,
     crossedAt |-> 0, errs |-> << >>]

\* one Read(p) of the caller: the body delivers n <= len(p) of its remaining
\* bytes, with io.EOF (or its own failure) once nothing remains, together
\* with the last bytes or on a later call
GuardRead ==
    /\ sv.pc = "reading"
    /\ sv.reads < MaxReads
    /\ \E plen \in 1..(MaxSize + 1), eofNow \in BOOLEAN :
        \E n \in 0..(IF plen < sv.len - sv.off THEN plen ELSE sv.len - sv.off) :
            LET atEnd == sv.off + n = sv.len
                err == IF atEnd /\ (eofNow \/ n = 0)
                       THEN IF sv.fails THEN InnerSizeError ELSE EOFError
                       ELSE NoSizeError
                res == sizeLimitedRead(sv.guard, n, err)
                total == sv.delivered + res.n
            IN  sv' = [sv EXCEPT
                    !.guard = res.guard,
                    !.off = @ + n,
                    !.reads = @ + 1,
                    !.delivered = total,
                    !.crossedAt = IF @ = 0 /\ total > sv.guard.maxSize
                                  THEN sv.reads + 1 ELSE @,
                    !.errs = Append(@, res.err)]
    /\ UNCHANGED notSv

\* the guards the middleware builds have a positive limit
GuardInit ==
    \E maxSize \in 1..MaxSize, sizeType \in {"request", "response"},
       len \in 0..(MaxSize + 2), fails \in BOOLEAN :
        sv = GuardStart(maxSize, sizeType, len, fails)

GuardSpecInit ==
    /\ BaseIdle /\ GuardInit
    /\ sc = 0 /\ ag = 0 /\ rb = 0 /\ cd = 0 /\ rq = 0 /\ lg = 0

GuardNext == GuardRead

GuardSpec == GuardSpecInit /\ [][GuardNext]_vars

\* C33: a Read of the counting guard reports a SizeError exactly when the
\* bytes read so far exceed the limit, with Current the bytes read and
\* Max the limit; the first SizeError comes with the read that crosses the
\* limit; a body of exactly Max bytes is read to its end without SizeError.
GuardCounts ==
    /\ \A i \in 1..Len(sv.errs) :
        /\ (sv.errs[i].kind = "SizeError") <=>
                (sv.crossedAt # 0 /\ i >= sv.crossedAt)
        /\ sv.errs[i].kind = "SizeError" =>
                /\ sv.errs[i].Current > sv.errs[i].Max
                /\ sv.errs[i].Max = sv.guard.maxSize
                /\ sv.errs[i].Type = sv.guard.sizeType
    /\ sv.reads > 0 =>
            ((sv.errs[sv.reads].kind = "SizeError") <=>
                (sv.delivered > sv.guard.maxSize))
    /\ sv.reads > 0 /\ sv.errs[sv.reads].kind = "SizeError" =>
            sv.errs[sv.reads].Current = sv.delivered
    /\ (sv.len = sv.guard.maxSize /\ ~sv.fails) =>
            \A i \in 1..Len(sv.errs) : sv.errs[i].kind \in {"none", "EOF"}

GuardCountsWitness ==
    /\ sv.reads = 3 /\ sv.guard.maxSize = 2 /\ sv.len = 3
    /\ sv.errs[1].kind = "none" /\ sv.errs[2].kind = "SizeError"
    /\ sv.errs[2].Current = 3 /\ sv.errs[3].kind = "SizeError"


\* C34 as stated: every builder operation, on any request and in any order,
\* returns without panicking; a request made from an empty or unparsable
\* URL fails only when it is built.
BuildersNeverPanic ==
    /\ ~rq.panicked
    /\ (rq.built.id = 1 /\ rq.req[1].url = "") => rq.built.err # "none"

\* C35 as stated: every build of a request with a byte body hands out a body
\* reader positioned at offset zero, however much of an earlier build's body
\* has been read.
BuildAtOffsetZero ==
    (rq.built.err = "none" /\ rq.built.body # 0) => rq.built.off = 0


\* ------------------------------------------------------------------------
\* ExponentialBackoffStrategy.NextDelay (middlewares/retry_strategies.go)
\* ------------------------------------------------------------------------
\* time.Duration is a signed two's-complement integer of 64 bits; the model
\* keeps its wrap-around at Width bits, and delays are scaled accordingly
Width == 8

TwoTo(n) == IF n = 0 THEN 1 ELSE 2 ^ n
MaxInt == TwoTo(Width - 1) - 1
MinInt == -TwoTo(Width - 1)

\* the result of an integer operation, as the machine stores it
WrapInt(x) == ((x + TwoTo(Width - 1)) % TwoTo(Width)) - TwoTo(Width - 1)

\* int64(1) << uint(attempt): bits shifted out are lost
ShiftOne(attempt) == IF attempt >= Width THEN 0 ELSE WrapInt(TwoTo(attempt))

\* Factor is a float64, kept as a number of halves (2 is 1.0, 3 is 1.5).
\* time.Duration(f) for the float64 f = p * Factor: truncation towards zero;
\* for a value the integer type cannot hold the result depends on the
\* machine (the lowest integer on amd64, the nearest bound on arm64)
DurationOfFloat(p, factor) ==
    LET num == p * factor
        t == IF num >= 0 THEN num \div 2 ELSE -((-num) \div 2)
    IN  IF t > MaxInt THEN {MinInt, MaxInt}
        ELSE IF t < MinInt THEN {MinInt}
        ELSE {t}

\* delay > s.MaxDelay caps the delay
Cap(delay, max) == IF delay > max THEN max ELSE delay

\* NextDelay(attempt): the delays the call can return
NextDelay(s, attempt) ==
    {Cap(WrapInt(s.InitialDelay * d), s.MaxDelay) :
        d \in DurationOfFloat(ShiftOne(attempt), s.Factor)}

\* strategies with InitialDelay > 0, Factor >= 1 and MaxDelay >= InitialDelay
BackoffStrategies ==
    {s \in [InitialDelay : {1, 3, TwoTo(Width - 4)},
            MaxDelay : {3, TwoTo(Width - 2), MaxInt},
            Factor : {2, 3, 4},
            MaxAttempts : 1..(Width + 1)] : s.MaxDelay >= s.InitialDelay}

BackoffStart == [pc |-> "backoff", attempt |-> 0, delays |-> << >>]

notRetry == <<clientVars, rlVars, sc, ag, sv, rb, cd, rq, lg>>

\* the strategy is asked for the delay of the next attempt, up to MaxAttempts
BackoffNextDelay ==
    /\ r.pc = "backoff"
    /\ r.attempt <= rin.MaxAttempts
    /\ \E delay \in NextDelay(rin, r.attempt) :
        r' = [r EXCEPT !.attempt = @ + 1, !.delays = Append(@, delay)]
    /\ UNCHANGED <<rin, ctx, inner, resps, ret, notRetry>>

BackoffInit ==
    /\ rin \in BackoffStrategies
    /\ r = BackoffStart
    /\ ctx = "none"
    /\ inner = [calls |-> << >>, inflight |-> 0]
    /\ resps = << >>
    /\ ret = NoRet

BackoffSpecInit == ClientIdle /\ BackoffInit /\ RLIdle /\ RestIdle

BackoffNext == BackoffNextDelay

BackoffSpec == BackoffSpecInit /\ [][BackoffNext]_vars

\* C36 as stated: with InitialDelay > 0, Factor >= 1 and MaxDelay >=
\* InitialDelay, the delays of attempts 0, 1, ... up to MaxAttempts never
\* decrease and lie between 0 and MaxDelay.
BackoffMonotoneBounded ==
    r.pc = "backoff" =>
        /\ \A i \in 1..Len(r.delays) :
            r.delays[i] >= 0 /\ r.delays[i] <= rin.MaxDelay
        /\ \A i, j \in 1..Len(r.delays) :
            i <= j => r.delays[i] <= r.delays[j]


\* C37 as stated: no call reads c.client.Transport while a writer of the
\* registry assigns it, unless both accesses are made under c.mu: the read
\* of a call and the assignment of a writer are never both the next step.
TransportAccessOrdered ==
    \A t \in Writers, c \in Callers :
        (ENABLED SetClientTransport(t) /\ ENABLED ClientDo(c)) =>
            (muWriter = t /\ c \in muReaders)


\* ------------------------------------------------------------------------
\* Logging middleware (middlewares/logging.go)
\* ------------------------------------------------------------------------
MaxLogLen == 1       \* largest ResponseBodyMaxLen configured

LogLevelNone == 0
LogLevelError == 1
LogLevelInfo == 2
LogLevelDebug == 3
LogLevels == LogLevelNone..LogLevelDebug

\* the response bodies inner hands out: the bytes, after how many of them
\* a read fails (-1 for never), and what Close returns
LogBodies ==
    {[data |-> Bytes(n), failAt |-> f, close |-> c] :
        n \in 0..(MaxLogLen + 2), f \in {-1, 0}, c \in Outcomes}
NoLogBody == [data |-> << >>, failAt |-> -1, close |-> "ok"]

\* io.ReadAll(io.LimitReader(body, limit)): the bytes read, and whether
\* the read failed before the limit or the end of the body was reached
LimitedReadAll(body, limit) ==
    LET n == IF Len(body.data) < limit THEN Len(body.data) ELSE limit
    IN  IF body.failAt >= 0 /\ body.failAt < n
        THEN [bytes |-> SubSeq(body.data, 1, body.failAt), err |-> TRUE]
        ELSE [bytes |-> SubSeq(body.data, 1, n), err |-> FALSE]

\* lines 122-140: the bytes the response body is replaced with
LoggedBody(body, maxLen) ==
    LET res == LimitedReadAll(body, maxLen + 1)
    IN  IF res.err THEN << >> ELSE res.bytes

\* options.ResponseBodyMaxLen > 0 && resp.Body != nil
BuffersResponse(options, hasBody) == options.ResponseBodyMaxLen > 0 /\ hasBody

LogStart(options) ==
    [pc |-> "request", options |-> options, inner |-> "none",
     hasBody |-> FALSE, body |-> NoLogBody, replaced |-> FALSE,
     out |-> << >>, off |-> 0, closes |-> 0, log |-> << >>,
     ret |-> "none"]

notLg == <<clientVars, retryVars, rlVars, sc, ag, sv, rb, cd, rq>>

\* lines 80-110: nothing is logged at LogLevelNone, the request is logged
\* from LogLevelInfo on
LogRequest ==
    /\ lg.pc = "request"
    /\ lg' = [lg EXCEPT !.pc = "inner",
                        !.log = IF lg.options.Level >= LogLevelInfo
                                THEN Append(@, "request") ELSE @]
    /\ UNCHANGED notLg

\* resp, err := next(req) returns an error: logged from LogLevelError on
LogInnerFails ==
    /\ lg.pc = "inner"
    /\ lg' = [lg EXCEPT !.pc = "returned", !.inner = "error", !.ret = "error",
                        !.log = IF lg.options.Level >= LogLevelError
                                THEN Append(@, "error") ELSE @]
    /\ UNCHANGED notLg

\* resp, err := next(req) returns a response
LogInnerResponds ==
    /\ lg.pc = "inner"
    /\ \E hasBody \in BOOLEAN, body \in LogBodies :
        /\ hasBody \/ body = NoLogBody
        /\ lg' = [lg EXCEPT !.pc = IF lg.options.Level = LogLevelNone
                                   THEN "returned" ELSE "response",
                            !.inner = "response", !.hasBody = hasBody,
                            !.body = body,
                            !.out = body.data,
                            !.ret = IF lg.options.Level = LogLevelNone
                                    THEN "response" ELSE @]
    /\ UNCHANGED notLg

\* lines 118-150: from LogLevelInfo on the body is read up to
\* ResponseBodyMaxLen+1 bytes, closed and replaced by a reader of the bytes
\* read; the response is logged and returned
LogResponse ==
    /\ lg.pc = "response"
    /\ IF lg.options.Level >= LogLevelInfo
       THEN IF BuffersResponse(lg.options, lg.hasBody)
            THEN lg' = [lg EXCEPT
                    !.pc = "returned", !.ret = "response",
                    !.replaced = TRUE,
                    !.out = LoggedBody(lg.body, lg.options.ResponseBodyMaxLen),
                    !.closes = @ + 1,
                    !.log = Append(@, "response")]
            ELSE lg' = [lg EXCEPT !.pc = "returned", !.ret = "response",
                                  !.log = Append(@, "response")]
       ELSE lg' = [lg EXCEPT !.pc = "returned", !.ret = "response"]
    /\ UNCHANGED notLg

\* the caller reads one byte of the body of the returned response
LogCallerRead ==
    /\ lg.pc = "returned" /\ lg.ret = "response" /\ lg.hasBody
    /\ lg.off < Len(lg.out)
    /\ lg.replaced \/ lg.body.failAt < 0 \/ lg.off < lg.body.failAt
    /\ lg' = [lg EXCEPT !.off = @ + 1]
    /\ UNCHANGED notLg

LogInit ==
    \E level \in LogLevels, maxLen \in 0..MaxLogLen :
        lg = LogStart([Level |-> level, ResponseBodyMaxLen |-> maxLen])

LogSpecInit ==
    /\ BaseIdle /\ LogInit
    /\ sc = 0 /\ ag = 0 /\ sv = 0 /\ rb = 0 /\ cd = 0 /\ rq = 0

LogNext ==
    \/ LogRequest
    \/ LogInnerFails
    \/ LogInnerResponds
    \/ LogResponse
    \/ LogCallerRead

LogSpec == LogSpecInit /\ [][LogNext]_vars

\* C38 as stated: with response-body logging enabled (ResponseBodyMaxLen >
\* 0, level at least info), the bytes of the body of the returned response
\* are the bytes inner's body delivers, whatever its length.
LoggingKeepsBody ==
    (/\ lg.pc = "returned" /\ lg.ret = "response" /\ lg.hasBody
     /\ lg.options.Level >= LogLevelInfo
     /\ lg.options.ResponseBodyMaxLen > 0
     /\ lg.body.failAt < 0) =>
        lg.out = lg.body.data


\* C39 as stated: when Execute with a timeout and stream = true, or
\* DoWithTimeout with auto-buffering disabled, returns the transport's
\* response, the sub-token derived for the deadline has not been cancelled
\* by the library, so the body stays readable.
StreamTokenAlive ==
    (/\ cd.pc = "done" /\ cd.timeout > 0
     /\ cd.res.kind = "transport"
     /\ \/ cd.fn = "Execute" /\ cd.stream
        \/ cd.fn = "DoWithTimeout" /\ ~cd.autoBuffer) =>
        ~cd.subCancelled

\* C40 as stated: every return of Do, DoStream and Execute has exactly one
\* of the response and the error non-nil, also when closing the body fails
\* after auto-buffering has read it.
ExactlyOneResult ==
    cd.pc = "done" => ((cd.res.kind = "nil") # (cd.err = NoClientError))

====
